---- MODULE Spec2Model ----
(***************************************************************************)
(* Verification model of the PolicyEngine ai-inequality analysis package.  *)
(*                                                                         *)
(* Real numbers are modelled as exact rationals <<num, den>> (den > 0, in  *)
(* lowest terms), so equalities the code is meant to satisfy "to floating  *)
(* tolerance" are checked exactly.  A MicroSeries is a pair of parallel    *)
(* sequences (values, weights); its .sum() is the weighted sum.            *)
(***************************************************************************)
EXTENDS Integers, Sequences, FiniteSets, TLC

----------------------------------------------------------------------------
\* Bounds of the model.

\* units (persons) in the microdata sample
MaxUnits == 2
\* person weights range over 0..MaxWeight
MaxWeight == 2

----------------------------------------------------------------------------
\* Exact rational arithmetic.

Abs(n) == IF n < 0 THEN -n ELSE n

RECURSIVE GCD(_, _)
GCD(a, b) == IF b = 0 THEN a ELSE GCD(b, a % b)

Norm(n, d) ==
    LET g == GCD(Abs(n), Abs(d))
        s == IF d < 0 THEN -1 ELSE 1
    IN  <<(s * n) \div g, (s * d) \div g>>

R(i) == <<i, 1>>
RAdd(a, b) == Norm(a[1] * b[2] + b[1] * a[2], a[2] * b[2])
RSub(a, b) == Norm(a[1] * b[2] - b[1] * a[2], a[2] * b[2])
RMul(a, b) == Norm(a[1] * b[1], a[2] * b[2])
\* division by zero is never evaluated: every caller guards it as the code does
RDiv(a, b) == Norm(a[1] * b[2], a[2] * b[1])
RNeg(a) == <<-a[1], a[2]>>
RLt(a, b) == a[1] * b[2] < b[1] * a[2]
RLe(a, b) == a[1] * b[2] <= b[1] * a[2]
RPos(a) == a[1] > 0
RZero == <<0, 1>>
ROne == <<1, 1>>

RECURSIVE RSumSeq(_)
RSumSeq(s) == IF s = <<>> THEN RZero ELSE RAdd(Head(s), RSumSeq(Tail(s)))

\* element-wise operations on arrays of rationals
Lift(ints) == [i \in DOMAIN ints |-> R(ints[i])]
VScale(vals, k) == [i \in DOMAIN vals |-> RMul(vals[i], k)]
VSub(a, b) == [i \in DOMAIN a |-> RSub(a[i], b[i])]
VMul(a, b) == [i \in DOMAIN a |-> RMul(a[i], b[i])]

\* MicroSeries.sum(): the weighted sum of the values
WSum(vals, w) == RSumSeq(VMul(vals, w))

----------------------------------------------------------------------------
\* Program constants.

CAPITAL_INCOME_VARS ==
    << "long_term_capital_gains", "short_term_capital_gains",
       "taxable_interest_income", "qualified_dividend_income",
       "non_qualified_dividend_income", "rental_income" >>

CapVarSet == {CAPITAL_INCOME_VARS[i] : i \in DOMAIN CAPITAL_INCOME_VARS}

----------------------------------------------------------------------------
\* State.

VARIABLES
    \* --- shift redistribution (scenario builders on one baseline) ---
    baseline,      \* baseline input arrays: weights, employment_income,
                   \* self_employment_income, cap[var]
    shift_pct,     \* the shift fraction passed to the builder (a rational)
    built,         \* which builder produced `branch` ("none" before any)
    branch,        \* the branch's overrides: variable name -> array, or
                   \* NoOverride where set_input was never called
    total_freed,   \* the builder's total_freed
    total_added,   \* diagnose_revenue.main's running total_added
    \* --- weighted Gini (capital_income_doubling.weighted_gini) ---
    series,        \* the MicroSeries passed in: [values, weights]
    rescale,       \* a factor k > 0 the weights are rescaled by
    gini,          \* outcome of weighted_gini(series), NotCalled before
    gini_rescaled, \* outcome of weighted_gini on the weights times k
    \* --- fiscal impact (compute_shift_sweep.net_fiscal_impact) ---
    components,           \* the scenario's revenue components (a dict)
    baseline_components,  \* the baseline's revenue components
    impact,               \* the dict net_fiscal_impact returned, NoImpact before
    \* --- the orchestrators' calls to the simulation engine ---
    routine,        \* the orchestrator that runs
    levels,         \* its shift_levels / multipliers argument, in thousandths
    positive_only,  \* run_sweep's positive_only argument
    data,           \* what the engine's data makes the code branch on:
                    \* positive_vars (capital variables whose weighted total
                    \* is > 0) and extra_fed_positive (extra_fed > 0)
    pc,             \* index of the next engine call the routine issues
    log,            \* the engine calls issued so far, in order
    roots,          \* Microsimulation objects constructed
    branches,       \* branches obtained with get_branch
    overridden,     \* <<sim, variable>> pairs that set_input has overridden
    cached,         \* sims on which a derived variable has been calculated
    \* --- quantile shares and Lorenz curve (metrics.py) ---
    sample,         \* the arrays passed in: [values, weights], whose lengths
                    \* may differ
    n_groups,       \* the n / n_points argument
    sort_idx,       \* the np.argsort result compute_decile_shares used
    shares,         \* outcome of compute_decile_shares, NotCalled before
    curve,          \* outcome of lorenz_curve, NotCalled before
    \* --- multiplier scenarios (_apply_multiplier, _apply_capital_mult) ---
    mult_baseline,  \* baseline input arrays, as in `baseline`
    multiplier,     \* the multiplier passed to the builder (a rational)
    scale_positive_only,  \* the builder's positive_only mode
    mult_built,     \* which builder produced mult_branch ("none" before any)
    mult_branch,    \* the branch's overrides: variable name -> array
    set_inputs,     \* the variables set_input was called with, in order
    \* --- marginal tax rates (compute_mtrs._compute_mtr_for_scenario) ---
    mtr_sim,        \* the scenario's input arrays, as in `baseline`
    base_net,       \* the engine's household_net_income total on the scenario
    bumped_net,     \* ... and on each perturbation branch (source -> total)
    pct_branch,     \* the values set on each perturbation branch
    row,            \* the row returned (source -> rate), NoRow before
    \* --- relational runs of the metrics (metrics.py) ---
    permuted,            \* the sample with its observations in another order
    shares_permuted,     \* compute_decile_shares of the reordered sample
    extended,            \* the sample with one more observation appended
    shares_extended,     \* compute_decile_shares of the extended sample
    curve_extended,      \* lorenz_curve of the extended sample
    \* --- rows of the capital-income sweep (capital_share_sweep.run_sweep) ---
    total_market,   \* the engine's household_market_income total on the baseline
    sweep_row,       \* the row computed for one multiplier, NoSweepRow before

    \* --- the UBI scenario of labor_capital_shift.run_scenarios ---
    scenario_levels,   \* the list of shift levels passed to run_scenarios
    fed_revenue,       \* the engine's income_tax totals: baseline, and per level
    total_population,  \* the engine's household_count_people total
    ubi,                \* what run_scenarios computed for the UBI, NotCalled before

    \* --- the occupation wage shock (compute_occupation_shock.main) ---
    persons,           \* per person: occupation code, employment income, weight
    poccu2_exposure,   \* the exposure score of each occupation code
    new_wages,          \* the employment income set on the branch, NotCalled before

    \* --- engine reads that fail (diagnose_revenue.main, run_sweep) ---
    fail_routine,   \* the routine running: "diagnose_revenue" or "run_sweep"
    failing,        \* the variables on which the engine's calculate raises
    read_pc,        \* index of the routine's next engine read
    reported,       \* the lines printed / the rows appended so far
    outcome,         \* "running", "done", or "error" once an exception escaped

    \* --- the capital doubling run (compute_capital_doubling.main) ---
    doubling        \* outcome of main: the result written, or the exception

shiftVars == <<baseline, shift_pct, built, branch, total_freed, total_added>>
giniVars == <<series, rescale, gini, gini_rescaled>>
fiscalVars == <<components, baseline_components, impact>>
callerVars == <<routine, levels, positive_only, data>>
engineVars == <<roots, branches, overridden, cached>>
protocolVars == <<callerVars, pc, log, engineVars>>

metricsVars == <<sample, n_groups, sort_idx, shares, curve>>

multVars == <<mult_baseline, multiplier, scale_positive_only, mult_built, mult_branch, set_inputs>>

mtrVars == <<mtr_sim, base_net, bumped_net, pct_branch, row>>

relVars == <<permuted, shares_permuted, extended, shares_extended, curve_extended>>

sweepVars == <<total_market, sweep_row>>

ubiVars == <<scenario_levels, fed_revenue, total_population, ubi>>

occVars == <<persons, poccu2_exposure, new_wages>>

failVars == <<fail_routine, failing, read_pc, reported, outcome>>

doublingVars == <<doubling>>

vars == <<shiftVars, giniVars, fiscalVars, protocolVars, metricsVars, multVars, mtrVars, relVars, sweepVars, ubiVars, occVars, failVars, doublingVars>>

\* what the actions of one component leave alone
notShiftVars == <<giniVars, fiscalVars, protocolVars, metricsVars, multVars, mtrVars, relVars, sweepVars, ubiVars, occVars, failVars, doublingVars>>
notGiniVars == <<shiftVars, fiscalVars, protocolVars, metricsVars, multVars, mtrVars, relVars, sweepVars, ubiVars, occVars, failVars, doublingVars>>
notFiscalVars == <<shiftVars, giniVars, protocolVars, metricsVars, multVars, mtrVars, relVars, sweepVars, ubiVars, occVars, failVars, doublingVars>>
notProtocolVars == <<shiftVars, giniVars, fiscalVars, metricsVars, multVars, mtrVars, relVars, sweepVars, ubiVars, occVars, failVars, doublingVars>>
notMetricsVars == <<shiftVars, giniVars, fiscalVars, protocolVars, multVars, mtrVars, relVars, sweepVars, ubiVars, occVars, failVars, doublingVars>>
notMultVars == <<shiftVars, giniVars, fiscalVars, protocolVars, metricsVars, mtrVars, relVars, sweepVars, ubiVars, occVars, failVars, doublingVars>>
notMtrVars == <<shiftVars, giniVars, fiscalVars, protocolVars, metricsVars, multVars, relVars, sweepVars, ubiVars, occVars, failVars, doublingVars>>
notRelVars == <<shiftVars, giniVars, fiscalVars, protocolVars, metricsVars, multVars, mtrVars, sweepVars, ubiVars, occVars, failVars, doublingVars>>
notSweepVars == <<shiftVars, giniVars, fiscalVars, protocolVars, metricsVars, multVars, mtrVars, relVars, ubiVars, occVars, failVars, doublingVars>>
notUbiVars == <<shiftVars, giniVars, fiscalVars, protocolVars, metricsVars, multVars, mtrVars, relVars, sweepVars, occVars, failVars, doublingVars>>
notOccVars == <<shiftVars, giniVars, fiscalVars, protocolVars, metricsVars, multVars, mtrVars, relVars, sweepVars, ubiVars, failVars, doublingVars>>
notFailVars == <<shiftVars, giniVars, fiscalVars, protocolVars, metricsVars, multVars, mtrVars, relVars, sweepVars, ubiVars, occVars, doublingVars>>
notDoublingVars == <<shiftVars, giniVars, fiscalVars, protocolVars, metricsVars, multVars, mtrVars, relVars, sweepVars, ubiVars, occVars, failVars>>

----------------------------------------------------------------------------
\* Weighted Gini coefficient (capital_income_doubling.weighted_gini).

\* observations in a sample passed to a statistic
MaxObs == 3

\* the outcome of a call: a returned value or a raised exception
Returned(x) == [raised |-> FALSE, value |-> x]
Raised == [raised |-> TRUE, value |-> RZero]
NotCalled == [raised |-> FALSE, value |-> <<>>]

SampleValues == { -1, 0, 1, 3 }

\* the samples of n observations
Samples(n) ==
    { [values |-> v, weights |-> w] :
        v \in [1..n -> SampleValues], w \in [1..n -> 0..MaxWeight] }

\* values[mask], for the indices kept in `keep` (in their original order)
RECURSIVE Take(_, _, _)
Take(arr, keep, i) ==
    IF i > Len(arr) THEN <<>>
    ELSE (IF keep[i] THEN <<arr[i]>> ELSE <<>>) \o Take(arr, keep, i + 1)

\* np.argsort(values): the index orders that sort the values ascending; the
\* order among equal values is the sort routine's choice
ArgSorts(values) ==
    LET n == Len(values)
    IN  { p \in [1..n -> 1..n] :
            /\ \A i, j \in 1..n : i # j => p[i] # p[j]
            /\ \A i \in 1..n : i < n => RLe(values[p[i]], values[p[i + 1]]) }

\* np.cumsum
RECURSIVE CumSum(_)
CumSum(arr) ==
    IF arr = <<>> THEN <<>>
    ELSE LET front == CumSum(SubSeq(arr, 1, Len(arr) - 1))
         IN  Append(front, RAdd(IF front = <<>> THEN RZero ELSE front[Len(front)],
                                arr[Len(arr)]))

\* weighted_gini(series), with sorted_indices the result of np.argsort
weighted_gini(values0, w0, sorted_indices) ==
    LET values == [i \in DOMAIN sorted_indices |-> values0[sorted_indices[i]]]
        w == [i \in DOMAIN sorted_indices |-> w0[sorted_indices[i]]]
        cumw == CumSum(w)
        total_weight == cumw[Len(cumw)]
        cumwv == CumSum(VMul(values, w))
        total_wv == cumwv[Len(cumwv)]
    IN  IF cumw = <<>> THEN Raised          \* cumw[-1] of an empty array: IndexError
        ELSE IF total_wv = RZero THEN Returned(RZero)
        ELSE Returned(
               RAdd(RSub(ROne, RDiv(RMul(R(2), RSumSeq(VMul(cumwv, w))),
                                    RMul(total_weight, total_wv))),
                    RDiv(ROne, total_weight)))

\* the arrays left by `mask = w > 0; values = values[mask]; w = w[mask]`
Masked(s) ==
    LET mask == [i \in DOMAIN s.weights |-> s.weights[i] > 0]
    IN  [values |-> Lift(Take(s.values, mask, 1)), weights |-> Lift(Take(s.weights, mask, 1))]

Rescaled(s, k) == [values |-> s.values, weights |-> [i \in DOMAIN s.weights |-> k * s.weights[i]]]

InitGini ==
    /\ \E n \in 1..MaxObs : series \in Samples(n)
    /\ rescale \in {2, 3}
    /\ gini = NotCalled
    /\ gini_rescaled = NotCalled

\* the Gini component at rest, in the specifications of the other components
IdleGini ==
    /\ series = [values |-> <<>>, weights |-> <<>>]
    /\ rescale = 1
    /\ gini = NotCalled
    /\ gini_rescaled = NotCalled

\* a call weighted_gini(series)
WeightedGini ==
    /\ gini = NotCalled
    /\ LET m == Masked(series)
       IN  \E idx \in ArgSorts(m.values) :
               gini' = weighted_gini(m.values, m.weights, idx)
    /\ UNCHANGED <<series, rescale, gini_rescaled, notGiniVars>>

\* a call weighted_gini on the same values with every weight multiplied by k
WeightedGiniRescaled ==
    /\ gini # NotCalled
    /\ gini_rescaled = NotCalled
    /\ LET m == Masked(Rescaled(series, rescale))
       IN  \E idx \in ArgSorts(m.values) :
               gini_rescaled' = weighted_gini(m.values, m.weights, idx)
    /\ UNCHANGED <<series, rescale, gini, notGiniVars>>

NextGini == WeightedGini \/ WeightedGiniRescaled

----------------------------------------------------------------------------
\* Fiscal impact decomposition (compute_shift_sweep).

\* component totals differ from the baseline's by at most MaxDelta either way
MaxDelta == 1

\* the keys of the dict _revenue_components returns
ComponentKeys == {"income_tax", "payroll", "eitc", "ctc", "snap"}

\* baseline totals the scenarios are compared with
BaselineComponents ==
    { [income_tax |-> 5, payroll |-> 3, eitc |-> 2, ctc |-> 2, snap |-> 1],
      [income_tax |-> 1, payroll |-> 1, eitc |-> 1, ctc |-> 1, snap |-> 1] }

NoImpact == [k \in {} |-> 0]

\* (mutation of net_fiscal_impact: the SNAP change keeps the raw sign)
net_fiscal_impact_RawSnap(c, b) ==
    LET delta_income_tax == c["income_tax"] - b["income_tax"]
        delta_payroll == c["payroll"] - b["payroll"]
        delta_eitc == -(c["eitc"] - b["eitc"])
        delta_ctc == -(c["ctc"] - b["ctc"])
        delta_snap == c["snap"] - b["snap"]
    IN  [ income_tax_change |-> delta_income_tax,
          payroll_change |-> delta_payroll,
          eitc_change |-> delta_eitc,
          ctc_change |-> delta_ctc,
          snap_change |-> delta_snap,
          total_change |-> delta_income_tax + delta_payroll + delta_eitc + delta_ctc + delta_snap ]

\* net_fiscal_impact(components, baseline_components)
net_fiscal_impact(c, b) ==
    LET delta_income_tax == c["income_tax"] - b["income_tax"]
        delta_payroll == c["payroll"] - b["payroll"]
        delta_eitc == -(c["eitc"] - b["eitc"])
        delta_ctc == -(c["ctc"] - b["ctc"])
        delta_snap == -(c["snap"] - b["snap"])
    IN  [ income_tax_change |-> delta_income_tax,
          payroll_change |-> delta_payroll,
          eitc_change |-> delta_eitc,
          ctc_change |-> delta_ctc,
          snap_change |-> delta_snap,
          total_change |-> delta_income_tax + delta_payroll + delta_eitc + delta_ctc + delta_snap ]

InitFiscal ==
    /\ baseline_components \in BaselineComponents
    /\ \E d \in [ComponentKeys -> -MaxDelta..MaxDelta] :
           components = [k \in ComponentKeys |-> baseline_components[k] + d[k]]
    /\ impact = NoImpact

\* the fiscal component at rest, in the specifications of the other components
IdleFiscal ==
    /\ baseline_components = [k \in ComponentKeys |-> 0]
    /\ components = [k \in ComponentKeys |-> 0]
    /\ impact = NoImpact

\* delta = net_fiscal_impact(rev, base_rev)
NetFiscalImpact ==
    /\ impact = NoImpact
    /\ impact' = net_fiscal_impact(components, baseline_components)
    /\ UNCHANGED <<components, baseline_components, notFiscalVars>>

NextFiscal == NetFiscalImpact

----------------------------------------------------------------------------
\* Shift redistribution: the scenario builders.

\* the mark of a variable set_input was never called for (an override is an
\* array with one entry per unit, so it is never the empty array)
NoOverride == <<>>

Units == 1..MaxUnits

\* Per-unit input profiles the baseline sample is drawn from: a weight, a
\* (employment, self-employment) income pair and a (long-term gains,
\* short-term gains) pair; the other capital income variables are zero.
LaborProfiles == { <<4, 0>>, <<0, 2>> }
CapitalProfiles == { <<3, 0>>, <<-2, 1>>, <<0, -1>>, <<1, 2>> }
ShiftPcts == { <<1, 4>>, <<1, 2>> }

Baselines ==
    { [ weights |-> w,
        employment_income |-> [i \in Units |-> lab[i][1]],
        self_employment_income |-> [i \in Units |-> lab[i][2]],
        cap |-> [v \in CapVarSet |->
                    IF v = "long_term_capital_gains"
                      THEN [i \in Units |-> cp[i][1]]
                    ELSE IF v = "short_term_capital_gains"
                      THEN [i \in Units |-> cp[i][2]]
                    ELSE [i \in Units |-> 0]] ] :
        w \in [Units -> 0..MaxWeight],
        lab \in [Units -> LaborProfiles],
        cp \in [Units -> CapitalProfiles] }

\* (mutation of WherePositiveScale: the scale reaches the losses too)
WherePositiveScale_ScalesLosses(vals, scale) ==
    [i \in DOMAIN vals |-> RMul(vals[i], scale)]

\* np.where(vals >= 0, vals * scale, vals)
WherePositiveScale(vals, scale) ==
    [i \in DOMAIN vals |-> IF RLe(RZero, vals[i]) THEN RMul(vals[i], scale) ELSE vals[i]]

\* np.where(raw >= 0, raw, 0)
WherePositive(vals) ==
    [i \in DOMAIN vals |-> IF RLe(RZero, vals[i]) THEN vals[i] ELSE RZero]

\* sum(d.values()) over the capital income variables, in list order
RECURSIVE SumOverVars(_, _)
SumOverVars(f, k) ==
    IF k = 0 THEN RZero
    ELSE RAdd(SumOverVars(f, k - 1), f[CAPITAL_INCOME_VARS[k]])

SumValues(f) == SumOverVars(f, Len(CAPITAL_INCOME_VARS))

\* the builder with the guard `original_total != 0` in place of `> 0`
LCS_apply_shift_NonZeroGuard(b, pct) ==
    LET w == Lift(b.weights)
        emp_income == Lift(b.employment_income)
        wage_reduction == VScale(emp_income, pct)
        se_income == Lift(b.self_employment_income)
        se_reduction == VScale(se_income, pct)
        freed == RAdd(WSum(wage_reduction, w), WSum(se_reduction, w))
        cap_totals == [v \in CapVarSet |-> WSum(Lift(b.cap[v]), w)]
        total_existing_cap == SumValues(cap_totals)
        share(v) == IF RPos(total_existing_cap)
                      THEN RDiv(cap_totals[v], total_existing_cap)
                      ELSE RDiv(ROne, R(Len(CAPITAL_INCOME_VARS)))
        scale(v) == RAdd(ROne, RDiv(RMul(share(v), freed), cap_totals[v]))
    IN  [ overrides |->
            [v \in CapVarSet \cup {"employment_income", "self_employment_income"} |->
                IF v = "employment_income" THEN VSub(emp_income, wage_reduction)
                ELSE IF v = "self_employment_income" THEN VSub(se_income, se_reduction)
                ELSE IF cap_totals[v] # RZero THEN VScale(Lift(b.cap[v]), scale(v))
                ELSE NoOverride],
          total_freed |-> freed ]

\* labor_capital_shift._apply_shift(baseline, branch_name, shift_pct):
\* the overrides it sets on the branch and the total_freed it returns.
LCS_apply_shift(b, pct) ==
    LET w == Lift(b.weights)
        emp_income == Lift(b.employment_income)
        wage_reduction == VScale(emp_income, pct)
        se_income == Lift(b.self_employment_income)
        se_reduction == VScale(se_income, pct)
        freed == RAdd(WSum(wage_reduction, w), WSum(se_reduction, w))
        cap_totals == [v \in CapVarSet |-> WSum(Lift(b.cap[v]), w)]
        total_existing_cap == SumValues(cap_totals)
        share(v) == IF RPos(total_existing_cap)
                      THEN RDiv(cap_totals[v], total_existing_cap)
                      ELSE RDiv(ROne, R(Len(CAPITAL_INCOME_VARS)))
        scale(v) == RAdd(ROne, RDiv(RMul(share(v), freed), cap_totals[v]))
    IN  [ overrides |->
            [v \in CapVarSet \cup {"employment_income", "self_employment_income"} |->
                IF v = "employment_income" THEN VSub(emp_income, wage_reduction)
                ELSE IF v = "self_employment_income" THEN VSub(se_income, se_reduction)
                ELSE IF RPos(cap_totals[v]) THEN VScale(Lift(b.cap[v]), scale(v))
                ELSE NoOverride],
          total_freed |-> freed ]

\* the redistribution with every variable given an equal share of the freed
\* amount instead of its share of the positive total
MTR_apply_shift_EqualShares(b, pct) ==
    LET w == Lift(b.weights)
        emp == Lift(b.employment_income)
        se == Lift(b.self_employment_income)
        freed == RAdd(WSum(VScale(emp, pct), w), WSum(VScale(se, pct), w))
        cap_positive_totals ==
            [v \in CapVarSet |-> WSum(WherePositive(Lift(b.cap[v])), w)]
        total_positive == SumValues(cap_positive_totals)
        share(v) == RDiv(ROne, R(Len(CAPITAL_INCOME_VARS)))
        scale(v) == RAdd(ROne, RDiv(RMul(share(v), freed), cap_positive_totals[v]))
    IN  [ overrides |->
            [v \in CapVarSet \cup {"employment_income", "self_employment_income"} |->
                IF v = "employment_income" THEN VScale(emp, RSub(ROne, pct))
                ELSE IF v = "self_employment_income" THEN VScale(se, RSub(ROne, pct))
                ELSE IF RPos(cap_positive_totals[v]) /\ RPos(total_positive)
                  THEN WherePositiveScale(Lift(b.cap[v]), scale(v))
                ELSE NoOverride],
          total_freed |-> freed ]

\* compute_mtrs._apply_shift(baseline, pct): positive-only redistribution.
MTR_apply_shift(b, pct) ==
    LET w == Lift(b.weights)
        emp == Lift(b.employment_income)
        se == Lift(b.self_employment_income)
        freed == RAdd(WSum(VScale(emp, pct), w), WSum(VScale(se, pct), w))
        cap_positive_totals ==
            [v \in CapVarSet |-> WSum(WherePositive(Lift(b.cap[v])), w)]
        total_positive == SumValues(cap_positive_totals)
        share(v) == RDiv(cap_positive_totals[v], total_positive)
        scale(v) == RAdd(ROne, RDiv(RMul(share(v), freed), cap_positive_totals[v]))
    IN  [ overrides |->
            [v \in CapVarSet \cup {"employment_income", "self_employment_income"} |->
                IF v = "employment_income" THEN VScale(emp, RSub(ROne, pct))
                ELSE IF v = "self_employment_income" THEN VScale(se, RSub(ROne, pct))
                ELSE IF RPos(cap_positive_totals[v]) /\ RPos(total_positive)
                  THEN WherePositiveScale(Lift(b.cap[v]), scale(v))
                ELSE NoOverride],
          total_freed |-> freed ]

\* The value a variable has on the branch: its override, else the baseline's.
BaselineValue(b, v) ==
    IF v \in CapVarSet THEN Lift(b.cap[v]) ELSE Lift(b[v])

BranchValue(b, br, v) ==
    IF br[v] = NoOverride THEN BaselineValue(b, v) ELSE br[v]

\* a freshly obtained branch: no overrides yet
NoBranch == [v \in CapVarSet \cup {"employment_income", "self_employment_income"} |-> NoOverride]

InitShift ==
    /\ baseline \in Baselines
    /\ shift_pct \in ShiftPcts
    /\ built = "none"
    /\ branch = NoBranch
    /\ total_freed = RZero
    /\ total_added = RZero

\* the shift component at rest, in the specifications of the other components
IdleShift ==
    /\ baseline = [weights |-> <<>>, employment_income |-> <<>>,
                   self_employment_income |-> <<>>, cap |-> [v \in CapVarSet |-> <<>>]]
    /\ shift_pct = RZero
    /\ built = "none"
    /\ branch = NoBranch
    /\ total_freed = RZero
    /\ total_added = RZero

\* a call of labor_capital_shift._apply_shift on the baseline
ApplyShift ==
    /\ built = "none"
    /\ LET r == LCS_apply_shift(baseline, shift_pct)
       IN  /\ branch' = r.overrides
           /\ total_freed' = r.total_freed
    /\ built' = "labor_capital_shift"
    /\ UNCHANGED <<baseline, shift_pct, total_added, notShiftVars>>

\* a call of compute_mtrs._apply_shift on the baseline
ApplyShiftPositiveOnly ==
    /\ built = "none"
    /\ LET r == MTR_apply_shift(baseline, shift_pct)
       IN  /\ branch' = r.overrides
           /\ total_freed' = r.total_freed
    /\ built' = "compute_mtrs"
    /\ UNCHANGED <<baseline, shift_pct, total_added, notShiftVars>>

\* diagnose_revenue.main: builds the "shift_50" branch with the positive-only
\* redistribution and accumulates total_added as it goes.
SHIFT_PCT == <<1, 2>>

DiagnoseRevenue_redistribute(b) ==
    LET w == Lift(b.weights)
        emp_income == Lift(b.employment_income)
        se_income == Lift(b.self_employment_income)
        wage_cut == VScale(emp_income, SHIFT_PCT)
        se_cut == VScale(se_income, SHIFT_PCT)
        freed == RAdd(WSum(wage_cut, w), WSum(se_cut, w))
        cap_positive_totals ==
            [v \in CapVarSet |-> WSum(WherePositive(Lift(b.cap[v])), w)]
        total_positive_cap == SumValues(cap_positive_totals)
        taken(v) == RPos(cap_positive_totals[v]) /\ RPos(total_positive_cap)
        share(v) == RDiv(cap_positive_totals[v], total_positive_cap)
        scale(v) == RAdd(ROne, RDiv(RMul(share(v), freed), cap_positive_totals[v]))
        scaled(v) == WherePositiveScale(Lift(b.cap[v]), scale(v))
        added == [v \in CapVarSet |->
                    IF taken(v) THEN WSum(VSub(scaled(v), Lift(b.cap[v])), w)
                    ELSE RZero]
    IN  [ overrides |->
            [v \in CapVarSet \cup {"employment_income", "self_employment_income"} |->
                IF v = "employment_income" THEN VSub(emp_income, wage_cut)
                ELSE IF v = "self_employment_income" THEN VSub(se_income, se_cut)
                ELSE IF taken(v) THEN scaled(v)
                ELSE NoOverride],
          total_freed |-> freed,
          total_added |-> SumValues(added) ]

\* the redistribution part of diagnose_revenue.main
DiagnoseRevenue ==
    /\ built = "none"
    /\ LET r == DiagnoseRevenue_redistribute(baseline)
       IN  /\ branch' = r.overrides
           /\ total_freed' = r.total_freed
           /\ total_added' = r.total_added
    /\ shift_pct' = SHIFT_PCT
    /\ built' = "diagnose_revenue"
    /\ UNCHANGED <<baseline, notShiftVars>>

\* diagnose_mtr_flip.main, lines 38-45 and 77-88: capital_added for the branch
\* of one shift level, from the amount `freed` that _apply_shift returned
diagnose_mtr_flip_capital_added(b, freed) ==
    LET w == Lift(b.weights)
        cap_positive_totals ==
            [v \in CapVarSet |-> WSum(WherePositive(Lift(b.cap[v])), w)]
        total_positive_cap == SumValues(cap_positive_totals)
        share(v) == RDiv(cap_positive_totals[v], total_positive_cap)
        scale(v) == RAdd(ROne, RDiv(RMul(share(v), freed), cap_positive_totals[v]))
        added == [v \in CapVarSet |->
                    IF RPos(cap_positive_totals[v]) /\ RPos(total_positive_cap)
                    THEN WSum(VScale(WherePositive(Lift(b.cap[v])),
                                     RSub(scale(v), ROne)), w)
                    ELSE RZero]
    IN  SumValues(added)

\* diagnose_mtr_flip.main for one shift level: the branch comes from
\* labor_capital_shift._apply_shift, capital_added from the loop above
DiagnoseMtrFlip ==
    /\ built = "none"
    /\ LET r == LCS_apply_shift(baseline, shift_pct)
       IN  /\ branch' = r.overrides
           /\ total_freed' = r.total_freed
           /\ total_added' = diagnose_mtr_flip_capital_added(baseline, r.total_freed)
    /\ built' = "diagnose_mtr_flip"
    /\ UNCHANGED <<baseline, shift_pct, notShiftVars>>

NextShift == ApplyShift \/ ApplyShiftPositiveOnly \/ DiagnoseRevenue

----------------------------------------------------------------------------
\* The orchestrators and the calls they issue to the simulation engine.

\* entries in a shift_levels / multipliers list
MaxLevels == 2

\* A simulation object: a Microsimulation (branch = "") or a named branch of one.
Root(r) == [root |-> r, branch |-> ""]
BranchOf(base, name) == [root |-> base.root, branch |-> name]
IsRoot(sim) == sim.branch = ""

\* Variables the engine derives from the inputs (and caches per simulation).
DerivedVars ==
    { "household_net_income", "household_market_income", "income_tax",
      "state_income_tax", "spm_unit_is_in_spm_poverty",
      "employee_social_security_tax", "employee_medicare_tax",
      "employer_social_security_tax", "employer_medicare_tax",
      "eitc", "ctc", "snap", "household_count_people" }

\* The engine calls: receiver, variable (if any) and, for get_branch, the
\* branch obtained.
OpNewSim(r) == [op |-> "Microsimulation", sim |-> Root(r), var |-> "", target |-> Root(r)]
OpGetBranch(base, name) ==
    [op |-> "get_branch", sim |-> base, var |-> "", target |-> BranchOf(base, name)]
OpSetInput(sim, var) == [op |-> "set_input", sim |-> sim, var |-> var, target |-> sim]
OpCalculate(sim, var) == [op |-> "calculate", sim |-> sim, var |-> var, target |-> sim]

RECURSIVE Flatten(_)
Flatten(ss) == IF ss = <<>> THEN <<>> ELSE Head(ss) \o Flatten(Tail(ss))

\* int(pct * 100), int(mult * 100): truncation of a value given in thousandths
IntTimes100(x) == x \div 10

\* labor_capital_shift._apply_shift: its engine calls
LCS_apply_shift_calls(base, branch_name, positive_vars) ==
    LET b == BranchOf(base, branch_name)
    IN  << OpGetBranch(base, branch_name),
           OpCalculate(base, "employment_income"),
           OpSetInput(b, "employment_income"),
           OpCalculate(base, "self_employment_income"),
           OpSetInput(b, "self_employment_income") >>
        \o [i \in DOMAIN CAPITAL_INCOME_VARS |-> OpCalculate(base, CAPITAL_INCOME_VARS[i])]
        \o Flatten([i \in DOMAIN CAPITAL_INCOME_VARS |->
                      <<OpCalculate(base, CAPITAL_INCOME_VARS[i])>>
                      \o (IF CAPITAL_INCOME_VARS[i] \in positive_vars
                            THEN <<OpSetInput(b, CAPITAL_INCOME_VARS[i])>>
                            ELSE <<>>)])

\* labor_capital_shift._extract_results: its engine calls
LCS_extract_results_calls(sim) ==
    << OpCalculate(sim, "household_net_income"),
       OpCalculate(sim, "household_market_income"),
       OpCalculate(sim, "income_tax"),
       OpCalculate(sim, "state_income_tax"),
       OpCalculate(sim, "spm_unit_is_in_spm_poverty") >>

\* labor_capital_shift.run_scenarios(shift_levels)
run_scenarios_calls(shift_levels, d) ==
    LET base == Root("baseline")
        name(pct) == "shift_" \o ToString(IntTimes100(pct))
        ubi_sim == Root("ubi_sim")
        last == shift_levels[Len(shift_levels)]
    IN  Flatten([i \in DOMAIN shift_levels |->
                   LCS_apply_shift_calls(base, name(shift_levels[i]), d.positive_vars)])
        \o << OpCalculate(base, "household_weight"),
              OpCalculate(base, "household_count_people") >>
        \o LCS_extract_results_calls(base)
        \o Flatten([i \in DOMAIN shift_levels |->
                      LCS_extract_results_calls(BranchOf(base, name(shift_levels[i])))])
        \o (IF d.extra_fed_positive
              THEN <<OpNewSim("ubi_sim")>>
                   \o LCS_apply_shift_calls(ubi_sim, "shift_ubi", d.positive_vars)
                   \o LCS_extract_results_calls(BranchOf(ubi_sim, "shift_ubi"))
              ELSE <<>>)

\* (mutation of _apply_multiplier: the override lands on the baseline)
CSS_apply_multiplier_calls_OnBaseline(base, branch_name) ==
    <<OpGetBranch(base, branch_name)>>
    \o Flatten([i \in DOMAIN CAPITAL_INCOME_VARS |->
                  << OpCalculate(base, CAPITAL_INCOME_VARS[i]),
                     OpSetInput(base, CAPITAL_INCOME_VARS[i]) >>])

\* capital_share_sweep._apply_multiplier: its engine calls (the same in both
\* modes of positive_only)
CSS_apply_multiplier_calls(base, branch_name) ==
    LET b == BranchOf(base, branch_name)
    IN  <<OpGetBranch(base, branch_name)>>
        \o Flatten([i \in DOMAIN CAPITAL_INCOME_VARS |->
                      << OpCalculate(base, CAPITAL_INCOME_VARS[i]),
                         OpSetInput(b, CAPITAL_INCOME_VARS[i]) >>])

\* capital_share_sweep._extract_results: its engine calls
CSS_extract_results_calls(sim) ==
    << OpCalculate(sim, "household_net_income"),
       OpCalculate(sim, "household_market_income"),
       OpCalculate(sim, "income_tax"),
       OpCalculate(sim, "state_income_tax"),
       OpCalculate(sim, "spm_unit_is_in_spm_poverty") >>

\* (mutation of run_sweep: the baseline capital share is computed before the
\* branches are set up)
run_sweep_calls_ShareFirst(multipliers, pos_only) ==
    LET base == Root("baseline")
        name(mult) == "cap_" \o ToString(IntTimes100(mult)) \o (IF pos_only THEN "_pos" ELSE "")
    IN  <<OpCalculate(base, "household_market_income")>>
        \o Flatten([i \in DOMAIN multipliers |->
                   IF multipliers[i] = 1000 THEN <<>>
                   ELSE CSS_apply_multiplier_calls(base, name(multipliers[i]))])
        \o [i \in DOMAIN CAPITAL_INCOME_VARS |-> OpCalculate(base, CAPITAL_INCOME_VARS[i])]
        \o << OpCalculate(base, "household_weight"),
              OpCalculate(base, "household_count_people") >>
        \o Flatten([i \in DOMAIN multipliers |->
                      CSS_extract_results_calls(
                          IF multipliers[i] = 1000 THEN base
                          ELSE BranchOf(base, name(multipliers[i])))])

\* capital_share_sweep.run_sweep(multipliers, positive_only)
run_sweep_calls(multipliers, pos_only) ==
    LET base == Root("baseline")
        name(mult) == "cap_" \o ToString(IntTimes100(mult)) \o (IF pos_only THEN "_pos" ELSE "")
    IN  Flatten([i \in DOMAIN multipliers |->
                   IF multipliers[i] = 1000 THEN <<>>
                   ELSE CSS_apply_multiplier_calls(base, name(multipliers[i]))])
        \o <<OpCalculate(base, "household_market_income")>>
        \o [i \in DOMAIN CAPITAL_INCOME_VARS |-> OpCalculate(base, CAPITAL_INCOME_VARS[i])]
        \o << OpCalculate(base, "household_weight"),
              OpCalculate(base, "household_count_people") >>
        \o Flatten([i \in DOMAIN multipliers |->
                      CSS_extract_results_calls(
                          IF multipliers[i] = 1000 THEN base
                          ELSE BranchOf(base, name(multipliers[i])))])

\* compute_shift_sweep.SHIFT_LEVELS, in thousandths
SWEEP_SHIFT_LEVELS == <<0, 100, 200, 300, 500, 1000>>

\* compute_shift_sweep._revenue_components: its engine calls
revenue_components_calls(sim) ==
    << OpCalculate(sim, "income_tax"),
       OpCalculate(sim, "employee_social_security_tax"),
       OpCalculate(sim, "employee_medicare_tax"),
       OpCalculate(sim, "eitc"),
       OpCalculate(sim, "ctc"),
       OpCalculate(sim, "snap") >>

\* compute_shift_sweep.main
shift_sweep_main_calls(d) ==
    LET base == Root("baseline")
        name(pct) == "sweep_" \o ToString(IntTimes100(pct))
    IN  Flatten([i \in DOMAIN SWEEP_SHIFT_LEVELS |->
                   IF SWEEP_SHIFT_LEVELS[i] = 0 THEN <<>>
                   ELSE LCS_apply_shift_calls(base, name(SWEEP_SHIFT_LEVELS[i]), d.positive_vars)])
        \o LCS_extract_results_calls(base)
        \o revenue_components_calls(base)
        \o Flatten([i \in DOMAIN SWEEP_SHIFT_LEVELS |->
                      IF SWEEP_SHIFT_LEVELS[i] = 0 THEN <<>>
                      ELSE LCS_extract_results_calls(BranchOf(base, name(SWEEP_SHIFT_LEVELS[i])))
                           \o revenue_components_calls(BranchOf(base, name(SWEEP_SHIFT_LEVELS[i])))])

\* compute_mtrs.INCOME_SOURCES
INCOME_SOURCES ==
    << "employment_income", "self_employment_income", "long_term_capital_gains",
       "short_term_capital_gains", "qualified_dividend_income" >>

\* (mutation of _compute_mtr_for_scenario: base_net is read before phase 1)
compute_mtr_for_scenario_calls_BaseNetFirst(sim) ==
    << OpCalculate(sim, "person_weight"),
       OpCalculate(sim, "household_net_income") >>
    \o Flatten([i \in DOMAIN INCOME_SOURCES |->
                  << OpCalculate(sim, INCOME_SOURCES[i]),
                     OpGetBranch(sim, "pct_" \o INCOME_SOURCES[i]),
                     OpSetInput(BranchOf(sim, "pct_" \o INCOME_SOURCES[i]), INCOME_SOURCES[i]) >>])
    \o [i \in DOMAIN INCOME_SOURCES |->
          OpCalculate(BranchOf(sim, "pct_" \o INCOME_SOURCES[i]), "household_net_income")]

\* compute_mtrs._compute_mtr_for_scenario(sim, label): its engine calls
compute_mtr_for_scenario_calls(sim) ==
    <<OpCalculate(sim, "person_weight")>>
    \o Flatten([i \in DOMAIN INCOME_SOURCES |->
                  << OpCalculate(sim, INCOME_SOURCES[i]),
                     OpGetBranch(sim, "pct_" \o INCOME_SOURCES[i]),
                     OpSetInput(BranchOf(sim, "pct_" \o INCOME_SOURCES[i]), INCOME_SOURCES[i]) >>])
    \o <<OpCalculate(sim, "household_net_income")>>
    \o [i \in DOMAIN INCOME_SOURCES |->
          OpCalculate(BranchOf(sim, "pct_" \o INCOME_SOURCES[i]), "household_net_income")]

\* diagnose_shift_revenue.main(): its engine calls, from Microsimulation() on
diagnose_shift_revenue_main_calls(d) ==
    LET base == Root("baseline")
        shifted == BranchOf(base, "shift_50")
        stcg_branch == BranchOf(base, "mtr_stcg")
        both(var) == <<OpCalculate(base, var), OpCalculate(shifted, var)>>
        payroll(a, b) == << OpCalculate(base, a), OpCalculate(base, b),
                            OpCalculate(shifted, a), OpCalculate(shifted, b) >>
    IN  <<OpNewSim("baseline")>>
        \o LCS_apply_shift_calls(base, "shift_50", d.positive_vars)
        \o both("income_tax")
        \o payroll("employee_social_security_tax", "employee_medicare_tax")
        \o payroll("employer_social_security_tax", "employer_medicare_tax")
        \o both("eitc") \o both("ctc") \o both("snap")
        \o << OpGetBranch(base, "mtr_stcg"),
              OpCalculate(base, "short_term_capital_gains"),
              OpSetInput(stcg_branch, "short_term_capital_gains"),
              OpCalculate(base, "household_net_income"),
              OpCalculate(stcg_branch, "household_net_income"),
              OpCalculate(base, "person_weight"),
              OpCalculate(base, "household_net_income"),
              OpCalculate(base, "employment_income") >>
        \o [i \in DOMAIN CAPITAL_INCOME_VARS |-> OpCalculate(base, CAPITAL_INCOME_VARS[i])]
        \o <<OpCalculate(base, "household_weight")>>

Routines == {"run_scenarios", "run_sweep", "compute_shift_sweep", "compute_mtrs"}

\* the engine calls of the running routine, in program order
Calls ==
    CASE routine = "run_scenarios" -> run_scenarios_calls(levels, data)
      [] routine = "run_sweep" -> run_sweep_calls(levels, positive_only)
      [] routine = "compute_shift_sweep" -> shift_sweep_main_calls(data)
      [] routine = "compute_mtrs" -> compute_mtr_for_scenario_calls(Root("baseline"))
      [] routine = "diagnose_shift_revenue" -> diagnose_shift_revenue_main_calls(data)
      [] OTHER -> <<>>

\* shift levels and multipliers the lists are drawn from, in thousandths
ShiftLevelValues == {100, 105, 500}
MultiplierValues == {1000, 1500, 1505, 2000}

LevelLists(S) == UNION { [1..n -> S] : n \in 1..MaxLevels }

PositiveVarChoices ==
    { {}, {"long_term_capital_gains"},
      {"long_term_capital_gains", "rental_income"}, CapVarSet }

InitProtocol ==
    /\ routine \in Routines
    /\ levels \in (IF routine = "run_scenarios" THEN LevelLists(ShiftLevelValues)
                   ELSE IF routine = "run_sweep" THEN LevelLists(MultiplierValues)
                   ELSE {<<>>})
    /\ positive_only \in (IF routine = "run_sweep" THEN BOOLEAN ELSE {FALSE})
    /\ data \in { [positive_vars |-> pv, extra_fed_positive |-> x] :
                    pv \in (IF routine \in {"run_scenarios", "compute_shift_sweep"}
                              THEN PositiveVarChoices ELSE {{}}),
                    x \in (IF routine = "run_scenarios" THEN BOOLEAN ELSE {FALSE}) }
    /\ pc = 1
    /\ log = <<>>
    /\ roots = {Root("baseline")}
    /\ branches = {}
    /\ overridden = {}
    /\ cached = {}

\* diagnose_shift_revenue.main() is entered: no simulation exists yet
InitDiagnose ==
    /\ routine = "diagnose_shift_revenue"
    /\ levels = <<>>
    /\ positive_only = FALSE
    /\ data \in { [positive_vars |-> pv, extra_fed_positive |-> FALSE] :
                    pv \in PositiveVarChoices }
    /\ pc = 1
    /\ log = <<>>
    /\ roots = {}
    /\ branches = {}
    /\ overridden = {}
    /\ cached = {}

\* no orchestrator runs, in the specifications of the other components
IdleProtocol ==
    /\ routine = "none"
    /\ levels = <<>>
    /\ positive_only = FALSE
    /\ data = [positive_vars |-> {}, extra_fed_positive |-> FALSE]
    /\ pc = 1
    /\ log = <<>>
    /\ roots = {}
    /\ branches = {}
    /\ overridden = {}
    /\ cached = {}

\* the routine issues its next call, of the given kind
Issue(kind) ==
    /\ pc <= Len(Calls)
    /\ Calls[pc].op = kind
    /\ log' = Append(log, Calls[pc])
    /\ pc' = pc + 1
    /\ UNCHANGED <<callerVars, notProtocolVars>>

\* Microsimulation(reform=reform)
NewSimulation ==
    /\ Issue("Microsimulation")
    /\ roots' = roots \cup {Calls[pc].target}
    /\ UNCHANGED <<branches, overridden, cached>>

\* sim.get_branch(name): the branch of that name, created if there is none
GetBranch ==
    /\ Issue("get_branch")
    /\ branches' = branches \cup {Calls[pc].target}
    /\ UNCHANGED <<roots, overridden, cached>>

\* sim.set_input(var, YEAR, values)
SetInput ==
    /\ Issue("set_input")
    /\ overridden' = overridden \cup {<<Calls[pc].sim, Calls[pc].var>>}
    /\ UNCHANGED <<roots, branches, cached>>

\* sim.calculate(var) of an input variable
CalculateInput ==
    /\ Issue("calculate")
    /\ Calls[pc].var \notin DerivedVars
    /\ UNCHANGED <<roots, branches, overridden, cached>>

\* sim.calculate(var) of a derived variable: the engine computes and caches it
CalculateDerived ==
    /\ Issue("calculate")
    /\ Calls[pc].var \in DerivedVars
    /\ cached' = cached \cup {Calls[pc].sim}
    /\ UNCHANGED <<roots, branches, overridden>>

NextProtocol ==
    NewSimulation \/ GetBranch \/ SetInput \/ CalculateInput \/ CalculateDerived

----------------------------------------------------------------------------
\* Quantile shares and Lorenz curve (metrics.py).

\* quantile groups / curve points asked for
MaxGroups == 3

\* observations in the arrays passed to compute_decile_shares / lorenz_curve
MaxSample == 2

\* the arrays a caller may pass: values and weights need not be equally long
\* weights of the observations passed to compute_decile_shares / lorenz_curve
MetricWeights == {0, 1, 2}

MetricSamples(lv, lw) ==
    { [values |-> v, weights |-> w] :
        v \in [1..lv -> SampleValues], w \in [1..lw -> MetricWeights] }

\* values[idx], weights[idx] raises IndexError when idx (a permutation of the
\* positions of values) holds a position that weights does not have
FancyIndexRaises(values0, weights0) == Len(values0) > Len(weights0)

\* arr[idx]
Permuted(arr, idx) == [i \in DOMAIN idx |-> arr[idx[i]]]

\* float division: 0/0 is nan (numpy warns and carries on)
NaN == <<0, 0>>
IsNaN(a) == a[2] = 0
FDiv(a, b) == IF b = RZero THEN NaN ELSE RDiv(a, b)

\* the bucket mask with the upper bound left open: cumw < upper
BucketMask_OpenUpper(cumw, total_w, i, n) ==
    LET lower == RMul(Norm(i, n), total_w)
        upper == RMul(Norm(i + 1, n), total_w)
    IN  [k \in DOMAIN cumw |->
            IF i = 0 THEN RLt(cumw[k], upper)
            ELSE RLt(lower, cumw[k]) /\ RLt(cumw[k], upper)]

\* the mask selecting the observations of bucket i (0 <= i < n):
\* (cumw > lower) & (cumw <= upper), and cumw <= upper for i = 0
BucketMask(cumw, total_w, i, n) ==
    LET lower == RMul(Norm(i, n), total_w)
        upper == RMul(Norm(i + 1, n), total_w)
    IN  [k \in DOMAIN cumw |->
            IF i = 0 THEN RLe(cumw[k], upper)
            ELSE RLt(lower, cumw[k]) /\ RLe(cumw[k], upper)]

\* compute_decile_shares(values, weights, n), with idx the result of np.argsort
compute_decile_shares(values0, weights0, n, idx) ==
    IF FancyIndexRaises(values0, weights0) THEN Raised
    ELSE LET values == Lift(Permuted(values0, idx))
             weights == Lift(Permuted(weights0, idx))
             cumw == CumSum(weights)
         IN  IF cumw = <<>> THEN Raised      \* cumw[-1] of an empty array
             ELSE LET total_w == cumw[Len(cumw)]
                      sums == [i \in 1..n |->
                                 RSumSeq(Take(VMul(values, weights),
                                              BucketMask(cumw, total_w, i - 1, n), 1))]
                      total == RSumSeq(sums)
                  IN  IF RPos(total)
                      THEN Returned([i \in 1..n |-> RDiv(sums[i], total)])
                      ELSE Returned(sums)

\* np.linspace(0, 1, n_points)
Linspace(n_points) ==
    [i \in 1..n_points |-> IF n_points = 1 THEN RZero ELSE Norm(i - 1, n_points - 1)]

\* np.interp's search: the index before the first entry of xp that key is not
\* >= to (for a non-decreasing xp, the last j with xp[j] <= key)
RECURSIVE InterpSearch(_, _, _)
InterpSearch(key, xp, i) ==
    IF i <= Len(xp) /\ ~IsNaN(xp[i]) /\ RLe(xp[i], key)
    THEN InterpSearch(key, xp, i + 1)
    ELSE i - 1

\* interpolation that takes the value at the left neighbour (a step function)
Interp_Step(key, xp, fp) ==
    LET last == Len(xp)
        j == InterpSearch(key, xp, 2)
    IN  IF ~IsNaN(xp[last]) /\ RLt(xp[last], key) THEN fp[last] ELSE fp[j]

\* np.interp(x, xp, fp) at one point; xp[1] = 0 <= key always holds here
Interp(key, xp, fp) ==
    LET last == Len(xp)
        j == InterpSearch(key, xp, 2)
    IN  IF ~IsNaN(xp[last]) /\ RLt(xp[last], key) THEN fp[last]
        ELSE IF j = last THEN fp[j]
        ELSE IF xp[j] = key THEN fp[j]
        ELSE IF IsNaN(xp[j + 1]) \/ IsNaN(fp[j + 1]) \/ IsNaN(fp[j]) THEN NaN
        ELSE RAdd(RMul(RDiv(RSub(fp[j + 1], fp[j]), RSub(xp[j + 1], xp[j])),
                       RSub(key, xp[j])),
                  fp[j])

\* lorenz_curve(values, weights, n_points), with idx the result of np.argsort
lorenz_curve(values0, weights0, n_points, idx) ==
    IF FancyIndexRaises(values0, weights0) THEN Raised
    ELSE LET values == Lift(Permuted(values0, idx))
             weights == Lift(Permuted(weights0, idx))
             cumw == CumSum(weights)
             cumwv == CumSum(VMul(values, weights))
         IN  IF cumw = <<>> THEN Raised      \* cumw[-1] of an empty array
             ELSE LET total_w == cumw[Len(cumw)]
                      total_wv == cumwv[Len(cumwv)]
                      pop_fracs == <<RZero>> \o [k \in DOMAIN cumw |-> FDiv(cumw[k], total_w)]
                      income_fracs ==
                          IF RPos(total_wv)
                          THEN <<RZero>> \o [k \in DOMAIN cumwv |-> FDiv(cumwv[k], total_wv)]
                          ELSE pop_fracs
                      x == Linspace(n_points)
                  IN  Returned([x |-> x,
                                y |-> [i \in DOMAIN x |-> Interp(x[i], pop_fracs, income_fracs)]])

InitMetrics ==
    /\ \E lv, lw \in 0..MaxSample : sample \in MetricSamples(lv, lw)
    /\ n_groups \in 1..MaxGroups
    /\ sort_idx = <<>>
    /\ shares = NotCalled
    /\ curve = NotCalled

\* the metrics component at rest, in the specifications of the other components
IdleMetrics ==
    /\ sample = [values |-> <<>>, weights |-> <<>>]
    /\ n_groups = 1
    /\ sort_idx = <<>>
    /\ shares = NotCalled
    /\ curve = NotCalled

\* a call compute_decile_shares(sample.values, sample.weights, n_groups)
ComputeDecileShares ==
    /\ shares = NotCalled
    /\ \E idx \in ArgSorts(Lift(sample.values)) :
           /\ sort_idx' = idx
           /\ shares' = compute_decile_shares(sample.values, sample.weights, n_groups, idx)
    /\ UNCHANGED <<sample, n_groups, curve, notMetricsVars>>

\* a call lorenz_curve(sample.values, sample.weights, n_groups)
LorenzCurve ==
    /\ curve = NotCalled
    /\ \E idx \in ArgSorts(Lift(sample.values)) :
           curve' = lorenz_curve(sample.values, sample.weights, n_groups, idx)
    /\ UNCHANGED <<sample, n_groups, sort_idx, shares, notMetricsVars>>

NextMetrics == ComputeDecileShares \/ LorenzCurve

----------------------------------------------------------------------------
\* Multiplier scenarios (capital_share_sweep._apply_multiplier and
\* compute_mtrs._apply_capital_mult).

\* multipliers of capital_share_sweep.MULTIPLIERS the builders are run with
MultiplierChoices == { <<1, 1>>, <<5, 4>>, <<2, 1>> }

\* the builder that scales every entry whatever its mode
CSS_apply_multiplier_IgnoresMode(b, m, pos_only) ==
    [ overrides |-> [v \in CapVarSet |-> VScale(Lift(b.cap[v]), m)],
      set_inputs |-> CAPITAL_INCOME_VARS ]

\* capital_share_sweep._apply_multiplier(baseline, branch_name, mult,
\* positive_only): what the branch holds and the set_input calls made
CSS_apply_multiplier(b, m, pos_only) ==
    [ overrides |->
        [v \in CapVarSet |->
            IF pos_only THEN WherePositiveScale(Lift(b.cap[v]), m)
            ELSE VScale(Lift(b.cap[v]), m)],
      set_inputs |-> CAPITAL_INCOME_VARS ]

\* compute_mtrs._apply_capital_mult(baseline, mult)
MTR_apply_capital_mult(b, m) ==
    [ overrides |-> [v \in CapVarSet |-> WherePositiveScale(Lift(b.cap[v]), m)],
      set_inputs |-> CAPITAL_INCOME_VARS ]

NoMultBranch == [v \in CapVarSet |-> NoOverride]

InitMult ==
    /\ mult_baseline \in Baselines
    /\ multiplier = RZero
    /\ scale_positive_only = FALSE
    /\ mult_built = "none"
    /\ mult_branch = NoMultBranch
    /\ set_inputs = <<>>

\* the multiplier component at rest, in the specifications of the other
\* components
IdleMult ==
    /\ mult_baseline = [weights |-> <<>>, employment_income |-> <<>>,
                        self_employment_income |-> <<>>,
                        cap |-> [v \in CapVarSet |-> <<>>]]
    /\ multiplier = RZero
    /\ scale_positive_only = FALSE
    /\ mult_built = "none"
    /\ mult_branch = NoMultBranch
    /\ set_inputs = <<>>

\* a call of capital_share_sweep._apply_multiplier on the baseline
ApplyMultiplier ==
    /\ mult_built = "none"
    /\ \E m \in MultiplierChoices, pos_only \in BOOLEAN :
           LET r == CSS_apply_multiplier(mult_baseline, m, pos_only)
           IN  /\ multiplier' = m
               /\ scale_positive_only' = pos_only
               /\ mult_branch' = r.overrides
               /\ set_inputs' = r.set_inputs
    /\ mult_built' = "capital_share_sweep"
    /\ UNCHANGED <<mult_baseline, notMultVars>>

\* a call of compute_mtrs._apply_capital_mult on the baseline
ApplyCapitalMult ==
    /\ mult_built = "none"
    /\ \E m \in MultiplierChoices :
           LET r == MTR_apply_capital_mult(mult_baseline, m)
           IN  /\ multiplier' = m
               /\ mult_branch' = r.overrides
               /\ set_inputs' = r.set_inputs
    /\ scale_positive_only' = TRUE
    /\ mult_built' = "compute_mtrs"
    /\ UNCHANGED <<mult_baseline, notMultVars>>

NextMult == ApplyMultiplier \/ ApplyCapitalMult

----------------------------------------------------------------------------
\* Marginal tax rates (compute_mtrs._compute_mtr_for_scenario).

IncomeSourceSet == {INCOME_SOURCES[i] : i \in DOMAIN INCOME_SOURCES}

DELTA_PCT == <<1, 100>>

\* household_net_income totals the engine may return
NetTotals == {9, 12}

NoRow == <<>>

\* the estimator with the gross change taken as the unweighted sum of the bumps
compute_mtr_for_scenario_Unweighted(sim, net, bumped) ==
    LET raw(var) == BaselineValue(sim, var)
        income_totals == [var \in IncomeSourceSet |-> RSumSeq(raw(var))]
        delta_gross_dollar(var) == RMul(income_totals[var], DELTA_PCT)
    IN  [ branches |-> [var \in IncomeSourceSet |-> VScale(raw(var), RAdd(ROne, DELTA_PCT))],
          row |-> [var \in IncomeSourceSet |->
                     IF delta_gross_dollar(var) # RZero
                     THEN RSub(ROne, RDiv(RSub(R(bumped[var]), R(net)), delta_gross_dollar(var)))
                     ELSE NaN] ]

\* _compute_mtr_for_scenario(sim, label), given the household_net_income
\* totals the engine returns for the scenario (net) and for each branch
compute_mtr_for_scenario(sim, net, bumped) ==
    LET w == Lift(sim.weights)
        raw(var) == BaselineValue(sim, var)
        income_totals == [var \in IncomeSourceSet |-> WSum(raw(var), w)]
        delta_gross_dollar(var) == RMul(income_totals[var], DELTA_PCT)
    IN  [ branches |-> [var \in IncomeSourceSet |-> VScale(raw(var), RAdd(ROne, DELTA_PCT))],
          row |-> [var \in IncomeSourceSet |->
                     IF delta_gross_dollar(var) # RZero
                     THEN RSub(ROne, RDiv(RSub(R(bumped[var]), R(net)), delta_gross_dollar(var)))
                     ELSE NaN] ]

\* the sources whose branch total the model lets differ from the scenario's
VariedSources == {"long_term_capital_gains"}

InitMtr ==
    /\ mtr_sim \in Baselines
    /\ base_net = 10
    /\ bumped_net \in { [var \in IncomeSourceSet |->
                            IF var \in VariedSources THEN f[var] ELSE 10] :
                        f \in [VariedSources -> NetTotals] }
    /\ pct_branch = [var \in IncomeSourceSet |-> NoOverride]
    /\ row = NoRow

\* the marginal-rate component at rest, in the specifications of the other
\* components
IdleMtr ==
    /\ mtr_sim = [weights |-> <<>>, employment_income |-> <<>>,
                  self_employment_income |-> <<>>,
                  cap |-> [v \in CapVarSet |-> <<>>]]
    /\ base_net = 0
    /\ bumped_net = [var \in IncomeSourceSet |-> 0]
    /\ pct_branch = [var \in IncomeSourceSet |-> NoOverride]
    /\ row = NoRow

\* a call _compute_mtr_for_scenario(mtr_sim, label)
ComputeMtrForScenario ==
    /\ row = NoRow
    /\ LET r == compute_mtr_for_scenario(mtr_sim, base_net, bumped_net)
       IN  /\ pct_branch' = r.branches
           /\ row' = r.row
    /\ UNCHANGED <<mtr_sim, base_net, bumped_net, notMtrVars>>

NextMtr == ComputeMtrForScenario

----------------------------------------------------------------------------
\* Relational runs of src/analysis/metrics.py: the functions called again on a
\* reordering of the sample and on the sample with one more observation.

\* weights of the observation added to the sample
ExtraWeights == {0, -1}

\* the orders in which a caller may pass n observations
Orders(n) ==
    { p \in [1..n -> 1..n] : \A i, j \in 1..n : i # j => p[i] # p[j] }

NoSample == [values |-> <<>>, weights |-> <<>>]

InitRel ==
    /\ \E l \in 1..MaxSample : sample \in MetricSamples(l, l)
    /\ n_groups \in 1..MaxGroups
    /\ sort_idx = <<>>
    /\ shares = NotCalled
    /\ curve = NotCalled
    /\ \E p \in Orders(Len(sample.values)) :
           permuted = [values |-> Permuted(sample.values, p),
                       weights |-> Permuted(sample.weights, p)]
    /\ \E v \in SampleValues, w \in ExtraWeights :
           extended = [values |-> Append(sample.values, v),
                       weights |-> Append(sample.weights, w)]
    /\ shares_permuted = NotCalled
    /\ shares_extended = NotCalled
    /\ curve_extended = NotCalled

\* the relational runs at rest, in the specifications of the other components
IdleRel ==
    /\ permuted = NoSample
    /\ extended = NoSample
    /\ shares_permuted = NotCalled
    /\ shares_extended = NotCalled
    /\ curve_extended = NotCalled

\* The relational calls run one after the other, after the calls on the sample.

\* a call compute_decile_shares(permuted.values, permuted.weights, n_groups);
\* np.argsort is a function of its argument, so an equal values array is
\* sorted by the same index array
ComputeDecileSharesPermuted ==
    /\ shares # NotCalled /\ curve # NotCalled
    /\ shares_permuted = NotCalled
    /\ \E idx \in ArgSorts(Lift(permuted.values)) :
           /\ permuted.values = sample.values => idx = sort_idx
           /\ shares_permuted' =
                  compute_decile_shares(permuted.values, permuted.weights, n_groups, idx)
    /\ UNCHANGED <<permuted, extended, shares_extended, curve_extended, notRelVars>>

\* a call compute_decile_shares(extended.values, extended.weights, n_groups)
ComputeDecileSharesExtended ==
    /\ shares_permuted # NotCalled
    /\ shares_extended = NotCalled
    /\ \E idx \in ArgSorts(Lift(extended.values)) :
           shares_extended' =
               compute_decile_shares(extended.values, extended.weights, n_groups, idx)
    /\ UNCHANGED <<permuted, extended, shares_permuted, curve_extended, notRelVars>>

\* a call lorenz_curve(extended.values, extended.weights, n_groups)
LorenzCurveExtended ==
    /\ shares_extended # NotCalled
    /\ curve_extended = NotCalled
    /\ \E idx \in ArgSorts(Lift(extended.values)) :
           curve_extended' =
               lorenz_curve(extended.values, extended.weights, n_groups, idx)
    /\ UNCHANGED <<permuted, extended, shares_permuted, shares_extended, notRelVars>>

NextRel ==
    \/ ComputeDecileShares
    \/ LorenzCurve
    \/ ComputeDecileSharesPermuted
    \/ ComputeDecileSharesExtended
    \/ LorenzCurveExtended

----------------------------------------------------------------------------
\* src/analysis/capital_share_sweep.py, run_sweep: the branches are built
\* first (_apply_multiplier, above), then one row per multiplier is computed.

\* totals the engine may report for household_market_income on the baseline
MarketTotals == {10, 12}

NoSweepRow == <<>>

\* baseline_cap_total: the sum over CAPITAL_INCOME_VARS of the weighted sum of
\* the baseline's values
baseline_cap_total(b) ==
    SumValues([v \in CapVarSet |-> WSum(Lift(b.cap[v]), Lift(b.weights))])

\* r["multiplier"] and r["capital_share"] of the row run_sweep computes for mult
run_sweep_row(b, market, mult) ==
    LET new_cap_total == RMul(baseline_cap_total(b), mult)
        new_market_total ==
            RAdd(market, RMul(RSub(mult, ROne), baseline_cap_total(b)))
    IN  [ multiplier |-> mult,
          capital_share |->
              IF new_market_total # RZero
              THEN RDiv(new_cap_total, new_market_total) ELSE RZero ]

InitSweep ==
    /\ InitMult
    /\ total_market \in MarketTotals
    /\ sweep_row = NoSweepRow

\* the sweep at rest, in the specifications of the other components
IdleSweep ==
    /\ total_market = 0
    /\ sweep_row = NoSweepRow

\* the row of the multiplier 1.0, computed on the baseline itself
SweepBaselineRow ==
    /\ mult_built = "none"
    /\ sweep_row = NoSweepRow
    /\ sweep_row' = run_sweep_row(mult_baseline, R(total_market), ROne)
    /\ UNCHANGED <<total_market, notSweepVars>>

\* the row of a multiplier whose branch _apply_multiplier has built
SweepRow ==
    /\ mult_built = "capital_share_sweep"
    /\ sweep_row = NoSweepRow
    /\ sweep_row' = run_sweep_row(mult_baseline, R(total_market), multiplier)
    /\ UNCHANGED <<total_market, notSweepVars>>

NextSweep == ApplyMultiplier \/ SweepBaselineRow \/ SweepRow

----------------------------------------------------------------------------
\* src/analysis/labor_capital_shift.py, run_scenarios: the UBI scenario.

\* shift levels a caller may list, in percent
UbiLevels == {10, 50}

\* federal revenue totals the engine may report
Revenues == {0, 1, 2}

\* population totals the engine may report
Populations == {1, 2}

\* the lists of 1..n shift levels
UbiLevelLists(n) == UNION { [1..l -> UbiLevels] : l \in 1..n }

None == "None"

\* run_scenarios, lines 143-169: shift_results is in the order of the list,
\* and shift_results[-1] is the scenario of the level listed last
run_scenarios_ubi(lvls, rev, pop) ==
    LET largest == rev.shifts[lvls[Len(lvls)]]
        extra_fed == largest - rev.baseline
        ubi_amount == IF extra_fed > 0 THEN Norm(extra_fed, pop) ELSE RZero
    IN  [ ubi_amount |-> ubi_amount,
          ubi_sim_built |-> RPos(ubi_amount),
          ubi |-> IF RPos(ubi_amount)
                  THEN [ubi_per_person |-> ubi_amount] ELSE None ]

InitUbi ==
    /\ scenario_levels \in UbiLevelLists(MaxLevels)
    /\ fed_revenue \in [baseline : Revenues, shifts : [UbiLevels -> Revenues]]
    /\ total_population \in Populations
    /\ ubi = NotCalled

\* run_scenarios at rest, in the specifications of the other components
IdleUbi ==
    /\ scenario_levels = <<>>
    /\ fed_revenue = [baseline |-> 0, shifts |-> [l \in UbiLevels |-> 0]]
    /\ total_population = 1
    /\ ubi = NotCalled

\* a call run_scenarios(scenario_levels)
RunScenarios ==
    /\ ubi = NotCalled
    /\ ubi' = run_scenarios_ubi(scenario_levels, fed_revenue, total_population)
    /\ UNCHANGED <<scenario_levels, fed_revenue, total_population, notUbiVars>>

----------------------------------------------------------------------------
\* src/analysis/compute_occupation_shock.py, main: the GDP-neutral shock.

\* occupation codes in the sample: 0 (not employed), two occupations, and 53
\* (never worked)
OccCodes == {0, 8, 40, 53}

\* employment incomes in the sample
OccIncomes == {0, 1, 3}

\* exposure scores an occupation may have
ExposureScores == {<<0, 1>>, <<1, 4>>, <<1, 2>>}

MAX_SHOCK == <<3, 10>>

\* np.maximum(x, 0)
Maximum0(x) == IF RLt(x, RZero) THEN RZero ELSE x

\* main, lines 175-197: new_wages from the occupation codes, the employment
\* incomes and the person weights; np.average raises ZeroDivisionError when
\* the weights of the employed sum to zero
occupation_shock_new_wages(ps, exposure) ==
    LET emp_income == [i \in DOMAIN ps |-> R(ps[i].emp_income)]
        pw == [i \in DOMAIN ps |-> R(ps[i].weight)]
        exposure_scores ==
            [i \in DOMAIN ps |->
                IF ps[i].code = 0 \/ ps[i].code = 53 THEN RZero
                ELSE exposure[ps[i].code]]
        employed == [i \in DOMAIN ps |->
                        ps[i].emp_income > 0 /\ ps[i].code > 0 /\ ps[i].code < 53]
        avg_weights == Take(VMul(emp_income, pw), employed, 1)
        exp_emp == Take(exposure_scores, employed, 1)
    IN  IF RSumSeq(avg_weights) = RZero THEN Raised
        ELSE LET mean_exp_weighted == RDiv(WSum(exp_emp, avg_weights), RSumSeq(avg_weights))
                 relative_shock ==
                     [i \in DOMAIN ps |->
                         RDiv(RMul(RSub(exposure_scores[i], mean_exp_weighted), MAX_SHOCK),
                              RSub(ROne, mean_exp_weighted))]
             IN  Returned([i \in DOMAIN ps |->
                     Maximum0(RMul(emp_income[i], RSub(ROne, relative_shock[i])))])

InitOcc ==
    /\ \E l \in 1..MaxUnits :
           persons \in [1..l -> [code : OccCodes, emp_income : OccIncomes,
                                 weight : 1..MaxWeight]]
    /\ poccu2_exposure \in [OccCodes \ {0, 53} -> ExposureScores]
    /\ new_wages = NotCalled

\* the occupation shock at rest, in the specifications of the other components
IdleOcc ==
    /\ persons = <<>>
    /\ poccu2_exposure = [c \in OccCodes \ {0, 53} |-> RZero]
    /\ new_wages = NotCalled

\* the GDP-neutral scenario of main
OccupationShock ==
    /\ new_wages = NotCalled
    /\ new_wages' = occupation_shock_new_wages(persons, poccu2_exposure)
    /\ UNCHANGED <<persons, poccu2_exposure, notOccVars>>

----------------------------------------------------------------------------
\* Engine reads that raise: the reads of diagnose_revenue.main from its
\* revenue-component loop on, and the reads of one row of run_sweep.

\* variables on which the engine may fail
FailVars == {"income_tax", "ctc", "snap", "household_net_income"}

\* diagnose_revenue.main, lines 68-96: the component loop reads inside
\* try/except, the reads after it do not
DiagnoseRevenueReads ==
    << [var |-> "income_tax", guarded |-> TRUE],
       [var |-> "eitc", guarded |-> TRUE],
       [var |-> "ctc", guarded |-> TRUE],
       [var |-> "additional_ctc", guarded |-> TRUE],
       [var |-> "snap", guarded |-> TRUE],
       [var |-> "household_market_income", guarded |-> FALSE],
       [var |-> "household_net_income", guarded |-> FALSE] >>

\* capital_share_sweep._extract_results, called by run_sweep for a row
RunSweepReads ==
    << [var |-> "household_net_income", guarded |-> FALSE],
       [var |-> "household_market_income", guarded |-> FALSE],
       [var |-> "income_tax", guarded |-> FALSE],
       [var |-> "state_income_tax", guarded |-> FALSE],
       [var |-> "spm_unit_is_in_spm_poverty", guarded |-> FALSE] >>

Reads == IF fail_routine = "run_sweep" THEN RunSweepReads ELSE DiagnoseRevenueReads

InitFail ==
    /\ fail_routine \in {"diagnose_revenue", "run_sweep"}
    /\ failing \in SUBSET FailVars
    /\ read_pc = 1
    /\ reported = <<>>
    /\ outcome = "running"

\* no routine running, in the specifications of the other components
IdleFail ==
    /\ fail_routine = "none"
    /\ failing = {}
    /\ read_pc = 1
    /\ reported = <<>>
    /\ outcome = "done"

\* a read inside try/except: on an exception the handler prints an error
\* line and the loop goes on to the next component
GuardedRead ==
    /\ outcome = "running"
    /\ Reads[read_pc].guarded
    /\ reported' = Append(reported, [var |-> Reads[read_pc].var,
                                     error |-> Reads[read_pc].var \in failing])
    /\ read_pc' = read_pc + 1
    /\ UNCHANGED <<fail_routine, failing, outcome, notFailVars>>

\* a read outside any try: an exception leaves the routine
UnguardedRead ==
    /\ outcome = "running"
    /\ ~Reads[read_pc].guarded
    /\ IF Reads[read_pc].var \in failing
       THEN outcome' = "error" /\ UNCHANGED <<read_pc, reported>>
       ELSE /\ read_pc' = read_pc + 1
            /\ outcome' = IF read_pc = Len(Reads) THEN "done" ELSE "running"
            /\ reported' = IF read_pc = Len(Reads)
                           THEN Append(reported, [var |-> "results", error |-> FALSE])
                           ELSE reported
    /\ UNCHANGED <<fail_routine, failing, notFailVars>>

NextFail == GuardedRead \/ UnguardedRead

----------------------------------------------------------------------------
\* src/analysis/compute_capital_doubling.py, main: the result it assembles
\* from _revenue_components and net_fiscal_impact of compute_shift_sweep.

\* the keys _fmt looks up in rev, in order
FmtRevKeys ==
    << "income_tax", "employee_payroll", "employer_payroll", "eitc", "ctc", "snap" >>

\* the keys _fmt looks up in delta, in order
FmtDeltaKeys ==
    << "total_change", "income_tax_change", "employee_payroll_change",
       "employer_payroll_change", "eitc_change", "ctc_change", "snap_change" >>

\* d[k] for every k of keys: a key that d does not have raises KeyError
HasKeys(d, keys) == \A i \in DOMAIN keys : keys[i] \in DOMAIN d

\* _fmt(metrics, rev, delta): the revenue entries of the row
fmt(rev, delta) ==
    IF ~HasKeys(rev, FmtRevKeys) THEN Raised
    ELSE IF delta = None
    THEN Returned([i \in DOMAIN FmtRevKeys |-> rev[FmtRevKeys[i]]])
    ELSE IF ~HasKeys(delta, FmtDeltaKeys) THEN Raised
    ELSE Returned([i \in DOMAIN FmtRevKeys |-> rev[FmtRevKeys[i]]]
                  \o [i \in DOMAIN FmtDeltaKeys |-> delta[FmtDeltaKeys[i]]])

\* main, lines 37-87: the dict handed to json.dump, or the exception raised
\* on the way
compute_capital_doubling_main(doubled_rev, base_rev) ==
    LET delta == net_fiscal_impact(doubled_rev, base_rev)
        base_row == fmt(base_rev, None)
        doubled_row == fmt(doubled_rev, delta)
    IN  IF base_row.raised \/ doubled_row.raised THEN Raised
        ELSE Returned([baseline |-> base_row.value, doubled |-> doubled_row.value])

InitDoubling ==
    /\ InitFiscal
    /\ doubling = NotCalled

\* main not run, in the specifications of the other components
IdleDoubling == doubling = NotCalled

\* a run of compute_capital_doubling.main, with `components` the totals
\* _revenue_components returns for the branch and `baseline_components` those
\* for the baseline
CapitalDoublingMain ==
    /\ doubling = NotCalled
    /\ impact' = net_fiscal_impact(components, baseline_components)
    /\ doubling' = compute_capital_doubling_main(components, baseline_components)
    /\ UNCHANGED <<components, baseline_components, shiftVars, giniVars,
                   protocolVars, metricsVars, multVars, mtrVars, relVars,
                   sweepVars, ubiVars, occVars, failVars>>

----------------------------------------------------------------------------
\* Specifications: one per component, the other components at rest.

ShiftStart ==
    /\ InitShift
    /\ IdleGini
    /\ IdleFiscal
    /\ IdleProtocol
    /\ IdleMetrics
    /\ IdleMult
    /\ IdleMtr
    /\ IdleRel
    /\ IdleSweep
    /\ IdleUbi
    /\ IdleOcc
    /\ IdleFail
    /\ IdleDoubling

SpecShift == ShiftStart /\ [][NextShift]_vars

GiniStart ==
    /\ InitGini
    /\ IdleShift
    /\ IdleFiscal
    /\ IdleProtocol
    /\ IdleMetrics
    /\ IdleMult
    /\ IdleMtr
    /\ IdleRel
    /\ IdleSweep
    /\ IdleUbi
    /\ IdleOcc
    /\ IdleFail
    /\ IdleDoubling

SpecGini == GiniStart /\ [][NextGini]_vars

FiscalStart ==
    /\ InitFiscal
    /\ IdleShift
    /\ IdleGini
    /\ IdleProtocol
    /\ IdleMetrics
    /\ IdleMult
    /\ IdleMtr
    /\ IdleRel
    /\ IdleSweep
    /\ IdleUbi
    /\ IdleOcc
    /\ IdleFail
    /\ IdleDoubling

SpecFiscal == FiscalStart /\ [][NextFiscal]_vars

ProtocolStart ==
    /\ InitProtocol
    /\ IdleShift
    /\ IdleGini
    /\ IdleFiscal
    /\ IdleMetrics
    /\ IdleMult
    /\ IdleMtr
    /\ IdleRel
    /\ IdleSweep
    /\ IdleUbi
    /\ IdleOcc
    /\ IdleFail
    /\ IdleDoubling

SpecProtocol == ProtocolStart /\ [][NextProtocol]_vars

MetricsStart ==
    /\ InitMetrics
    /\ IdleShift
    /\ IdleGini
    /\ IdleFiscal
    /\ IdleProtocol
    /\ IdleMult
    /\ IdleMtr
    /\ IdleRel
    /\ IdleSweep
    /\ IdleUbi
    /\ IdleOcc
    /\ IdleFail
    /\ IdleDoubling

SpecMetrics == MetricsStart /\ [][NextMetrics]_vars

MultStart ==
    /\ InitMult
    /\ IdleShift
    /\ IdleGini
    /\ IdleFiscal
    /\ IdleProtocol
    /\ IdleMetrics
    /\ IdleMtr
    /\ IdleRel
    /\ IdleSweep
    /\ IdleUbi
    /\ IdleOcc
    /\ IdleFail
    /\ IdleDoubling

SpecMult == MultStart /\ [][NextMult]_vars

MtrStart ==
    /\ InitMtr
    /\ IdleShift
    /\ IdleGini
    /\ IdleFiscal
    /\ IdleProtocol
    /\ IdleMetrics
    /\ IdleMult
    /\ IdleRel
    /\ IdleSweep
    /\ IdleUbi
    /\ IdleOcc
    /\ IdleFail
    /\ IdleDoubling

SpecMtr == MtrStart /\ [][NextMtr]_vars

DiagnoseStart ==
    /\ InitDiagnose
    /\ IdleShift
    /\ IdleGini
    /\ IdleFiscal
    /\ IdleMetrics
    /\ IdleMult
    /\ IdleMtr
    /\ IdleRel
    /\ IdleSweep
    /\ IdleUbi
    /\ IdleOcc
    /\ IdleFail
    /\ IdleDoubling

SpecDiagnose == DiagnoseStart /\ [][NextProtocol]_vars

RelStart ==
    /\ InitRel
    /\ IdleGini
    /\ IdleFiscal
    /\ IdleProtocol
    /\ IdleMult
    /\ IdleMtr
    /\ IdleShift
    /\ IdleSweep
    /\ IdleUbi
    /\ IdleOcc
    /\ IdleFail
    /\ IdleDoubling

SpecRel == RelStart /\ [][NextRel]_vars

SweepStart ==
    /\ InitSweep
    /\ IdleGini
    /\ IdleFiscal
    /\ IdleProtocol
    /\ IdleMetrics
    /\ IdleMtr
    /\ IdleRel
    /\ IdleShift
    /\ IdleUbi
    /\ IdleOcc
    /\ IdleFail
    /\ IdleDoubling

SpecSweep == SweepStart /\ [][NextSweep]_vars

\* diagnose_mtr_flip.main on the baselines of the shift component
SpecFlip == ShiftStart /\ [][DiagnoseMtrFlip]_vars

UbiStart ==
    /\ InitUbi
    /\ IdleGini
    /\ IdleFiscal
    /\ IdleProtocol
    /\ IdleMetrics
    /\ IdleMult
    /\ IdleMtr
    /\ IdleRel
    /\ IdleSweep
    /\ IdleShift
    /\ IdleOcc
    /\ IdleFail
    /\ IdleDoubling

SpecUbi == UbiStart /\ [][RunScenarios]_vars

OccStart ==
    /\ InitOcc
    /\ IdleGini
    /\ IdleFiscal
    /\ IdleProtocol
    /\ IdleMetrics
    /\ IdleMult
    /\ IdleMtr
    /\ IdleRel
    /\ IdleSweep
    /\ IdleUbi
    /\ IdleShift
    /\ IdleFail
    /\ IdleDoubling

SpecOcc == OccStart /\ [][OccupationShock]_vars

FailStart ==
    /\ InitFail
    /\ IdleGini
    /\ IdleFiscal
    /\ IdleProtocol
    /\ IdleMetrics
    /\ IdleMult
    /\ IdleMtr
    /\ IdleRel
    /\ IdleSweep
    /\ IdleUbi
    /\ IdleOcc
    /\ IdleShift
    /\ IdleDoubling

SpecFail == FailStart /\ [][NextFail]_vars

DoublingStart ==
    /\ InitDoubling
    /\ IdleGini
    /\ IdleProtocol
    /\ IdleMetrics
    /\ IdleMult
    /\ IdleMtr
    /\ IdleRel
    /\ IdleSweep
    /\ IdleUbi
    /\ IdleOcc
    /\ IdleFail
    /\ IdleShift

SpecDoubling == DoublingStart /\ [][CapitalDoublingMain]_vars

----------------------------------------------------------------------------
\* Quantities the shift claims are stated in.

\* posTotal_v = sum_i weight_i * max(value_i, 0)
PosTotal(b, v) ==
    LET c == b.cap[v]
        term == [i \in DOMAIN c |-> R(b.weights[i] * (IF c[i] > 0 THEN c[i] ELSE 0))]
    IN  RSumSeq(term)

TotalPositive(b) == SumValues([v \in CapVarSet |-> PosTotal(b, v)])

\* sum_v sum_i weight_i * (branch_v,i - baseline_v,i) over the capital variables
CapitalAdded(b, br) ==
    SumValues([v \in CapVarSet |->
        WSum(VSub(BranchValue(b, br, v), BaselineValue(b, v)), Lift(b.weights))])

\* weighted employment + self-employment + capital income of a scenario
MarketIncome(b, br) ==
    RAdd(RAdd(WSum(BranchValue(b, br, "employment_income"), Lift(b.weights)),
              WSum(BranchValue(b, br, "self_employment_income"), Lift(b.weights))),
         SumValues([v \in CapVarSet |-> WSum(BranchValue(b, br, v), Lift(b.weights))]))

HasLoss(b) ==
    \E v \in CapVarSet : \E i \in DOMAIN b.cap[v] : b.cap[v][i] < 0 /\ b.weights[i] > 0

PositiveOnlyBuilt == built \in {"compute_mtrs", "diagnose_revenue"}

\* C1: the positive-only shift redistribution (compute_mtrs._apply_shift and
\* diagnose_revenue.main) conserves the injected amount: whenever
\* totalPositive > 0, the weighted sum over all capital variables and units of
\* (scaled - original) equals total_freed, and diagnose_revenue's own
\* total_added equals it too.
C1_ShiftConservesFreed ==
    (PositiveOnlyBuilt /\ RPos(TotalPositive(baseline))) =>
        /\ CapitalAdded(baseline, branch) = total_freed
        /\ built = "diagnose_revenue" => total_added = total_freed

\* C1 witness: a positive-only builder has run on a baseline that mixes gains
\* and losses, with a positive amount freed.
C1_Witness ==
    /\ built = "compute_mtrs"
    /\ RPos(TotalPositive(baseline))
    /\ HasLoss(baseline)
    /\ RPos(total_freed)
    /\ CapitalAdded(baseline, branch) = total_freed

\* C2 (as claimed): labor_capital_shift._apply_shift keeps total market income
\* constant: the branch's weighted market income equals the baseline's, i.e.
\* the capital income added equals the returned total_freed.
C2_MarketIncomeConserved ==
    built = "labor_capital_shift" =>
        /\ MarketIncome(baseline, branch) = MarketIncome(baseline, NoBranch)
        /\ CapitalAdded(baseline, branch) = total_freed

\* C3 (as claimed): labor_capital_shift._apply_shift never alters a loss: every
\* capital entry that is negative on the baseline has the same value on the
\* branch.
C3_LossesUnchanged ==
    built = "labor_capital_shift" =>
        \A v \in CapVarSet : \A i \in Units :
            baseline.cap[v][i] < 0 => BranchValue(baseline, branch, v)[i] = R(baseline.cap[v][i])

----------------------------------------------------------------------------
\* Quantities the Gini claims are stated in.

TotalWeight(s) == RSumSeq(Lift(s.weights))

\* every weight <= 0: the filtered sample is empty
EmptyAfterFiltering(s) == \A i \in DOMAIN s.weights : s.weights[i] <= 0

\* the weighted total of the retained observations (zero iff their mean is)
WeightedTotal(s) == WSum(Masked(s).values, Masked(s).weights)

\* 2 * sum(w_i * v_i * F_i) / (total_w * mu) - 1, F_i = (cumw_i - w_i/2) / total_w,
\* over the retained observations sorted ascending by value
MidpointRankGini(s) ==
    LET m == Masked(s)
        idx == CHOOSE p \in ArgSorts(m.values) : TRUE
        v == [i \in DOMAIN idx |-> m.values[idx[i]]]
        w == [i \in DOMAIN idx |-> m.weights[idx[i]]]
        cumw == CumSum(w)
        total_w == cumw[Len(cumw)]
        mu == RDiv(WSum(v, w), total_w)
        F == [i \in DOMAIN v |-> RDiv(RSub(cumw[i], RDiv(w[i], R(2))), total_w)]
    IN  RSub(RDiv(RMul(R(2), RSumSeq(VMul(VMul(w, v), F))), RMul(total_w, mu)), ROne)

\* C8 (as claimed): weighted_gini is invariant under uniform rescaling of the
\* weights: weighted_gini(v, w) = weighted_gini(v, k*w) for every k > 0 when
\* the total weight is positive.
C8_GiniWeightScaleInvariant ==
    (gini # NotCalled /\ gini_rescaled # NotCalled /\ RPos(TotalWeight(series))) =>
        gini_rescaled = gini

\* C9 (as claimed): on degenerate input (every weight <= 0, or the weighted
\* mean of the retained observations exactly 0) weighted_gini returns 0.0 and
\* does not raise.
C9_GiniDegenerateReturnsZero ==
    (gini # NotCalled /\ (EmptyAfterFiltering(series) \/ WeightedTotal(series) = RZero)) =>
        gini = Returned(RZero)

\* C10 (as claimed): on every non-degenerate sample (some weight > 0, weighted
\* mean # 0) weighted_gini returns the midpoint-rank value, hence 0 when all
\* retained values are equal.
C10_GiniIsMidpointRank ==
    (gini # NotCalled /\ ~EmptyAfterFiltering(series) /\ WeightedTotal(series) # RZero) =>
        gini = Returned(MidpointRankGini(series))

----------------------------------------------------------------------------
\* Quantities the fiscal claims are stated in.

TaxLike == {"income_tax", "payroll"}
BenefitLike == {"eitc", "ctc", "snap"}

ChangeKey(k) ==
    CASE k = "income_tax" -> "income_tax_change"
      [] k = "payroll" -> "payroll_change"
      [] k = "eitc" -> "eitc_change"
      [] k = "ctc" -> "ctc_change"
      [] k = "snap" -> "snap_change"

Diff(k) == components[k] - baseline_components[k]

\* component k is the only one that differs from the baseline
OnlyChange(k) == \A j \in ComponentKeys \ {k} : Diff(j) = 0

RECURSIVE SumOver(_, _)
SumOver(f, keys) ==
    IF keys = {} THEN 0
    ELSE LET k == CHOOSE x \in keys : TRUE IN f[k] + SumOver(f, keys \ {k})

\* C7: net_fiscal_impact applies the sign convention: a tax-like change is
\* scenario - baseline, a benefit-like change is -(scenario - baseline),
\* total_change is the sum of the signed changes; so a lone increase d of a
\* tax-like component gives total_change = d and a lone increase d of a
\* benefit-like component gives total_change = -d.
C7_FiscalSignConvention ==
    impact # NoImpact =>
        /\ \A k \in TaxLike : impact[ChangeKey(k)] = Diff(k)
        /\ \A k \in BenefitLike : impact[ChangeKey(k)] = -Diff(k)
        /\ impact["total_change"] =
               SumOver([k \in ComponentKeys |-> impact[ChangeKey(k)]], ComponentKeys)
        /\ \A k \in TaxLike : (OnlyChange(k) /\ Diff(k) > 0) => impact["total_change"] = Diff(k)
        /\ \A k \in BenefitLike : (OnlyChange(k) /\ Diff(k) > 0) => impact["total_change"] = -Diff(k)

\* C7 witness: net_fiscal_impact has run on a scenario whose only change is a
\* rise of SNAP, and reports the negative of the rise.
C7_Witness ==
    /\ impact # NoImpact
    /\ OnlyChange("snap")
    /\ Diff("snap") > 0
    /\ impact["total_change"] = -Diff("snap")

----------------------------------------------------------------------------
\* Quantities the protocol claims are stated in.

Finished == pc > Len(Calls)

LastCall == log[Len(log)]

\* a call that constructs a scenario: get_branch or set_input
IsBuild(c) == c.op \in {"get_branch", "set_input"}

IsDerivedRead(c) == c.op = "calculate" /\ c.var \in DerivedVars

ReadsNetIncome(c) == c.op = "calculate" /\ c.var = "household_net_income"

\* the branch obtained by the latest get_branch among the first n calls
RECURSIVE LatestBranch(_)
LatestBranch(n) ==
    IF n = 0 THEN Root("none")
    ELSE IF log[n].op = "get_branch" THEN log[n].target
    ELSE LatestBranch(n - 1)

\* C4: two-phase protocol of run_scenarios, run_sweep and
\* compute_shift_sweep.main: whenever a get_branch or set_input is issued, no
\* derived variable has yet been calculated on the baseline it belongs to or
\* on any branch of that baseline.  (Every prefix of the log is the log of an
\* earlier state, so holding at each call is holding for every pair of calls.)
C4_BuildBeforeDerivedRead ==
    (routine \in {"run_scenarios", "run_sweep", "compute_shift_sweep"}
        /\ log # <<>> /\ IsBuild(LastCall)) =>
        \A sim \in cached : sim.root # LastCall.sim.root

\* C4 witness: run_scenarios has finished a batch of two distinct shift
\* branches followed by the UBI scenario on its own baseline, all of them read.
C4_Witness ==
    /\ routine = "run_scenarios"
    /\ Finished
    /\ Cardinality({b \in branches : b.root = "baseline"}) = 2
    /\ BranchOf(Root("ubi_sim"), "shift_ubi") \in cached
    /\ Root("baseline") \in cached

\* C5: in _compute_mtr_for_scenario no branch is created or overridden once
\* household_net_income has been read, and at the first such read the
\* perturbation branch of every income source exists with its override set.
C5_MtrBranchesBeforeNetIncome ==
    routine = "compute_mtrs" =>
        /\ (log # <<>> /\ IsBuild(LastCall)) =>
               \A i \in 1..(Len(log) - 1) : ~ReadsNetIncome(log[i])
        /\ (log # <<>> /\ ReadsNetIncome(LastCall)) =>
               \A i \in DOMAIN INCOME_SOURCES :
                   LET b == BranchOf(Root("baseline"), "pct_" \o INCOME_SOURCES[i])
                   IN  b \in branches /\ <<b, INCOME_SOURCES[i]>> \in overridden

\* C5 witness: _compute_mtr_for_scenario has finished: five branches, and
\* household_net_income read on the baseline and on each of them.
C5_Witness ==
    /\ routine = "compute_mtrs"
    /\ Finished
    /\ Cardinality(branches) = Len(INCOME_SOURCES)
    /\ cached = branches \cup {Root("baseline")}

\* C6: the baseline is read-only and scenarios are isolated: no set_input is
\* ever issued on a Microsimulation itself (so its inputs carry no override),
\* and every set_input goes to the branch obtained by the latest get_branch,
\* i.e. the one of the same builder call.
C6_BaselineReadOnly ==
    /\ \A o \in overridden : ~IsRoot(o[1])
    /\ (log # <<>> /\ LastCall.op = "set_input") =>
           /\ LastCall.sim = LatestBranch(Len(log))
           /\ LastCall.sim \in branches

\* C6 witness: run_sweep has built two multiplier branches, each with all
\* capital income variables overridden, and the baseline has none.
C6_Witness ==
    /\ routine = "run_sweep"
    /\ Finished
    /\ Cardinality(branches) = 2
    /\ \A b \in branches : \A v \in CapVarSet : <<b, v>> \in overridden
    /\ \A v \in CapVarSet : <<Root("baseline"), v>> \notin overridden

----------------------------------------------------------------------------
\* Quantities the quantile-share claims are stated in.

\* both arrays have one entry per observation
EqualLengths == Len(sample.values) = Len(sample.weights)

SharesReturned == shares # NotCalled /\ ~shares.raised

\* the sample in the ascending order compute_decile_shares sorted it in
SortedValues == Lift(Permuted(sample.values, sort_idx))
SortedWeights == Lift(Permuted(sample.weights, sort_idx))
SortedCumW == CumSum(SortedWeights)
SampleTotalW == RSumSeq(Lift(sample.weights))

\* observation k of the sorted sample belongs to bucket i (0 <= i < n)
InBucket(k, i) ==
    LET cw == SortedCumW[k]
    IN  IF i = 0 THEN RLe(RMul(cw, R(n_groups)), SampleTotalW)
        ELSE /\ RLt(RMul(R(i), SampleTotalW), RMul(cw, R(n_groups)))
             /\ RLe(RMul(cw, R(n_groups)), RMul(R(i + 1), SampleTotalW))

RECURSIVE BucketSumUpTo(_, _)
BucketSumUpTo(i, k) ==
    IF k = 0 THEN RZero
    ELSE RAdd(BucketSumUpTo(i, k - 1),
              IF InBucket(k, i) THEN RMul(SortedValues[k], SortedWeights[k]) ELSE RZero)

\* sum of value*weight over the observations of bucket i
BucketSum(i) == BucketSumUpTo(i, Len(sample.values))

RECURSIVE AllBucketsSumUpTo(_)
AllBucketsSumUpTo(i) ==
    IF i < 0 THEN RZero ELSE RAdd(AllBucketsSumUpTo(i - 1), BucketSum(i))

\* the sum over all buckets
AllBucketsSum == AllBucketsSumUpTo(n_groups - 1)

ExactlyOneBucket ==
    \A k \in DOMAIN sample.values :
        Cardinality({i \in 0..(n_groups - 1) : InBucket(k, i)}) = 1

SampleWeightedTotal == WSum(Lift(sample.values), Lift(sample.weights))

\* C12: compute_decile_shares(values, weights, n) always returns exactly n
\* numbers; they sum to 1 whenever the weighted total of the values is
\* positive, and when that total is <= 0 the unnormalized bucket sums are
\* returned without raising.
C12_SharesCountAndSum ==
    (shares # NotCalled /\ EqualLengths) =>
        /\ ~shares.raised
        /\ Len(shares.value) = n_groups
        /\ RPos(SampleWeightedTotal) => RSumSeq(shares.value) = ROne
        /\ ~RPos(SampleWeightedTotal) =>
              \A i \in 0..(n_groups - 1) : shares.value[i + 1] = BucketSum(i)

----------------------------------------------------------------------------
\* Quantities the Lorenz-curve claims are stated in.

CurveReturned == curve # NotCalled /\ ~curve.raised

AllValuesEqualPositive ==
    \A i, j \in DOMAIN sample.values :
        sample.values[i] = sample.values[j] /\ sample.values[i] > 0

\* C13: for a sample with positive total weight and positive total weighted
\* value and n_points >= 2, lorenz_curve returns arrays of length n_points
\* with x[0] = 0, x[-1] = 1, y[0] = 0 and y[-1] = 1; and when all values are
\* equal and positive, y = x at every point.
C13_LorenzEndpoints ==
    (/\ curve # NotCalled /\ EqualLengths /\ n_groups >= 2
     /\ RPos(SampleTotalW) /\ RPos(SampleWeightedTotal)) =>
        /\ ~curve.raised
        /\ Len(curve.value.x) = n_groups /\ Len(curve.value.y) = n_groups
        /\ curve.value.x[1] = RZero /\ curve.value.x[n_groups] = ROne
        /\ curve.value.y[1] = RZero /\ curve.value.y[n_groups] = ROne
        /\ AllValuesEqualPositive => curve.value.y = curve.value.x

\* a returned curve over several equal positive values with unequal positive
\* weights, resampled at a point strictly between two observations
C13_Witness ==
    /\ CurveReturned /\ EqualLengths /\ n_groups >= 3
    /\ Len(sample.values) >= 2
    /\ AllValuesEqualPositive
    /\ \A i \in DOMAIN sample.weights : sample.weights[i] > 0
    /\ \E i, j \in DOMAIN sample.weights : sample.weights[i] # sample.weights[j]

NonDecreasing(s) == \A j \in 1..(Len(s) - 1) : RLe(s[j], s[j + 1])

\* C14: for every sample of real values (of either sign) with non-negative
\* weights and positive total weight, the y returned by lorenz_curve is
\* non-decreasing (y[j] <= y[j+1] for all consecutive points), and so is x.
C14_LorenzMonotone ==
    (curve # NotCalled /\ EqualLengths /\ RPos(SampleTotalW)) =>
        /\ ~curve.raised
        /\ NonDecreasing(curve.value.x)
        /\ NonDecreasing(curve.value.y)

AllFinite(s) == \A j \in DOMAIN s : ~IsNaN(s[j])

\* the degenerate-but-valid samples: every weight <= 0, a total weighted value
\* of 0, or a single observation
DegenerateSample ==
    \/ \A i \in DOMAIN sample.weights : sample.weights[i] <= 0
    \/ SampleWeightedTotal = RZero
    \/ Len(sample.values) = 1

\* C15: on a degenerate-but-valid sample (all weights <= 0, total weighted
\* value 0, or a single observation) lorenz_curve raises no exception and
\* returns finite x and y with y = x.
C15_LorenzDegenerateDiagonal ==
    (/\ curve # NotCalled /\ EqualLengths /\ Len(sample.values) >= 1
     /\ DegenerateSample) =>
        /\ ~curve.raised
        /\ AllFinite(curve.value.x) /\ AllFinite(curve.value.y)
        /\ curve.value.y = curve.value.x

\* C16: compute_decile_shares and lorenz_curve called with values and weights
\* of different lengths (either one longer) end in an error and never return
\* shares or curve points.
C16_MismatchedLengthsRaise ==
    ~EqualLengths =>
        /\ shares # NotCalled => shares.raised
        /\ curve # NotCalled => curve.raised

----------------------------------------------------------------------------
\* Quantities the multiplier claim is stated in.

\* how many times set_input was called with variable v
SetInputCount(v) == Cardinality({k \in DOMAIN set_inputs : set_inputs[k] = v})

\* C17: the branch built by _apply_multiplier (and _apply_capital_mult)
\* overrides every capital income variable exactly once; in positive-only mode
\* each unit's value becomes value*mult if value >= 0 and stays value if
\* value < 0; otherwise every entry, losses included, becomes value*mult.
C17_MultiplierRedistribution ==
    mult_built # "none" =>
        \A v \in CapVarSet :
            /\ SetInputCount(v) = 1
            /\ mult_branch[v] # NoOverride
            /\ \A i \in Units :
                   LET value == R(mult_baseline.cap[v][i])
                   IN  mult_branch[v][i] =
                           IF scale_positive_only /\ mult_baseline.cap[v][i] < 0
                           THEN value
                           ELSE RMul(value, multiplier)

\* a positive-only branch with a multiplier other than 1 over a variable that
\* holds both a gain and a loss
C17_Witness ==
    /\ mult_built = "capital_share_sweep"
    /\ scale_positive_only
    /\ multiplier # ROne
    /\ \E v \in CapVarSet : \E i, j \in Units :
           mult_baseline.cap[v][i] > 0 /\ mult_baseline.cap[v][j] < 0

----------------------------------------------------------------------------
\* Quantities the marginal-rate claim is stated in.

\* the weighted total change applied to a source on its perturbation branch:
\* sum over every unit of weight * (perturbed - original)
AppliedChange(var) ==
    WSum(VSub(pct_branch[var], BaselineValue(mtr_sim, var)), Lift(mtr_sim.weights))

DeltaNet(var) == R(bumped_net[var] - base_net)

----------------------------------------------------------------------------
\* Redistribution impossibility.

ShiftBuilt == built \in {"labor_capital_shift", "compute_mtrs"}

\* C19: when no capital income variable has positive weighted holdings
\* (totalPositive <= 0), labor_capital_shift._apply_shift and
\* compute_mtrs._apply_shift set no override on any capital income variable,
\* so the realized allocation is 0, strictly less than a positive total_freed.
C19_NoPositiveHoldingsNoOverride ==
    (ShiftBuilt /\ ~RPos(TotalPositive(baseline))) =>
        /\ \A v \in CapVarSet : branch[v] = NoOverride
        /\ CapitalAdded(baseline, branch) = RZero
        /\ RPos(total_freed) => RLt(CapitalAdded(baseline, branch), total_freed)

\* labor_capital_shift._apply_shift has run on a baseline whose only capital
\* holdings are weighted losses, with a positive amount freed
C19_Witness ==
    /\ built = "labor_capital_shift"
    /\ ~RPos(TotalPositive(baseline))
    /\ HasLoss(baseline)
    /\ RPos(total_freed)

----------------------------------------------------------------------------
\* The protocol in diagnose_shift_revenue.main.

\* C20: in diagnose_shift_revenue.main every branch creation and override,
\* the STCG sanity-check branch (get_branch("mtr_stcg") and its set_input)
\* included, is issued before the first calculate of a derived aggregate on
\* the baseline or on any of its branches.
C20_DiagnoseBuildsBeforeDerivedRead ==
    (routine = "diagnose_shift_revenue" /\ log # <<>> /\ IsBuild(LastCall)) =>
        \A s \in cached : s.root # LastCall.sim.root

----------------------------------------------------------------------------
\* Relational properties of compute_decile_shares and lorenz_curve.

\* the values of a sequence are pairwise different (np.argsort has one result)
AllDistinct(s) == \A i, j \in DOMAIN s : i # j => s[i] # s[j]

\* C21: compute_decile_shares returns the same shares for a reordering of the
\* observations; stated for the reorderings that exchange observations of
\* equal value, whose values array, and so whose sort order, is the same.
C21_TiedExchangeKeepsShares ==
    (shares # NotCalled /\ shares_permuted # NotCalled
        /\ permuted.values = sample.values)
    => shares_permuted = shares

\* C22: adding one observation of weight 0 or of negative weight changes
\* neither the shares nor the Lorenz curve; stated for samples whose values,
\* the added one included, are pairwise different.
C22_NonPositiveWeightIgnored ==
    AllDistinct(extended.values)
    => /\ (shares # NotCalled /\ shares_extended # NotCalled
              => shares_extended = shares)
       /\ (curve # NotCalled /\ curve_extended # NotCalled
              => curve_extended = curve)

----------------------------------------------------------------------------
\* The capital share reported by run_sweep.

\* the values of capital variable v on the simulation the row was computed on:
\* the baseline for the multiplier 1.0, the branch otherwise
RowSimValue(v) ==
    IF sweep_row.multiplier = ROne \/ mult_branch[v] = NoOverride
    THEN Lift(mult_baseline.cap[v]) ELSE mult_branch[v]

\* weighted total of the capital income variables on the row's simulation
RowCapitalTotal ==
    SumValues([v \in CapVarSet |-> WSum(RowSimValue(v), Lift(mult_baseline.weights))])

\* weighted capital income the row's simulation holds beyond the baseline's
RowCapitalAdded == RSub(RowCapitalTotal, baseline_cap_total(mult_baseline))

\* C23: every row of run_sweep reports capital_share = the weighted total of
\* the capital income variables on the row's branch, divided by the baseline
\* market income total plus the weighted capital income actually added, in
\* both modes and for baselines with negative capital entries.
C23_CapitalShareIsBranchShare ==
    (sweep_row # NoSweepRow /\ RAdd(R(total_market), RowCapitalAdded) # RZero)
    => sweep_row.capital_share =
           RDiv(RowCapitalTotal, RAdd(R(total_market), RowCapitalAdded))

----------------------------------------------------------------------------
\* C24: capital_added of diagnose_mtr_flip.main equals the weighted capital
\* income that labor_capital_shift._apply_shift actually added on the branch,
\* for any baseline, baselines with losses included.
C24_CapitalAddedIsActuallyAdded ==
    built = "diagnose_mtr_flip" => total_added = CapitalAdded(baseline, branch)

----------------------------------------------------------------------------
\* The UBI scenario of run_scenarios.

\* the largest shift level of the list
LargestLevel ==
    CHOOSE l \in {scenario_levels[k] : k \in DOMAIN scenario_levels} :
        \A k \in DOMAIN scenario_levels : scenario_levels[k] <= l

\* federal revenue of the scenario with the largest shift level, less the
\* baseline's
LargestExtraFed == fed_revenue.shifts[LargestLevel] - fed_revenue.baseline

\* C25: the UBI is funded by the largest shift: for any list of shift levels,
\* ubi_amount is the extra federal revenue of the scenario with the largest
\* shift level per person when that is positive; otherwise ubi_amount is 0,
\* no UBI simulation is built and the 'ubi' entry is None.
C25_UbiFundedByLargestShift ==
    ubi # NotCalled =>
        IF LargestExtraFed > 0
        THEN ubi.ubi_amount = Norm(LargestExtraFed, total_population)
        ELSE ubi.ubi_amount = RZero /\ ~ubi.ubi_sim_built /\ ubi.ubi = None

----------------------------------------------------------------------------
\* The occupation wage shock.

\* weighted total employment income before the shock
OccBaseTotal ==
    RSumSeq([i \in DOMAIN persons |-> R(persons[i].emp_income * persons[i].weight)])

\* weighted total employment income after the shock
OccShockTotal ==
    RSumSeq([i \in DOMAIN persons |->
                RMul(new_wages.value[i], R(persons[i].weight))])

\* C26: the occupation wage shock is GDP-neutral for any occupation codes
\* (0 and 53 included), exposure scores and incomes: the weighted total of
\* employment income after the shock equals the total before.
C26_ShockConservesWages ==
    (new_wages # NotCalled /\ ~new_wages.raised) => OccShockTotal = OccBaseTotal

----------------------------------------------------------------------------
\* Failed engine reads.

\* a calculate call the routine has made raised an exception
FailedReadHappened ==
    \/ \E k \in 1..(read_pc - 1) : Reads[k].var \in failing
    \/ read_pc <= Len(Reads) /\ Reads[read_pc].var \in failing /\ outcome = "error"

\* C27: an exception raised by a calculate call is never caught or replaced
\* by a partial result: once a read has failed the routine is in an error
\* state, in every analysis routine.
C27_FailedReadEndsRoutine ==
    (fail_routine # "none" /\ FailedReadHappened) => outcome = "error"

----------------------------------------------------------------------------
\* C28: compute_capital_doubling.main only reads keys that _revenue_components
\* and net_fiscal_impact provide, so for any engine outputs the run reaches
\* the JSON write without a missing-key error.
C28_DoublingReachesJsonWrite ==
    doubling # NotCalled => ~doubling.raised

----------------------------------------------------------------------------
\* The scale factor of the positive-only redistribution.

\* 1 + total_freed / totalPositive
CommonScale == RAdd(ROne, RDiv(total_freed, TotalPositive(baseline)))

\* C29: in the positive-only shift redistribution every variable with a
\* positive posTotal is scaled by the same factor 1 + total_freed /
\* totalPositive, whatever its share: each non-negative entry of such a
\* variable is its baseline value times that factor.
C29_CommonScaleFactor ==
    PositiveOnlyBuilt =>
        \A v \in CapVarSet :
            RPos(PosTotal(baseline, v)) =>
                \A i \in DOMAIN baseline.cap[v] :
                    baseline.cap[v][i] >= 0 =>
                        BranchValue(baseline, branch, v)[i] =
                            RMul(R(baseline.cap[v][i]), CommonScale)

\* C29 witness: compute_mtrs._apply_shift has redistributed a positive amount
\* over two variables whose positive totals, and so whose shares, differ.
C29_Witness ==
    /\ built = "compute_mtrs"
    /\ RPos(total_freed)
    /\ \E v1, v2 \in CapVarSet :
           /\ RPos(PosTotal(baseline, v1))
           /\ RLt(PosTotal(baseline, v1), PosTotal(baseline, v2))
           /\ \E i \in DOMAIN baseline.cap[v2] :
                  /\ baseline.cap[v1][i] > 0
                  /\ baseline.cap[v2][i] > 0
                  /\ branch[v1][i] = RMul(R(baseline.cap[v1][i]), CommonScale)
                  /\ branch[v2][i] = RMul(R(baseline.cap[v2][i]), CommonScale)

----------------------------------------------------------------------------
\* Branch names of the scenarios of one batch.

\* the different levels of the batch that get a branch (run_sweep builds none
\* for the multiplier 1.0)
ScenarioLevels ==
    {levels[k] : k \in DOMAIN levels} \ (IF routine = "run_sweep" THEN {1000} ELSE {})

\* the branches obtained from the baseline
ScenarioBranches == {b \in branches : b.root = "baseline"}

\* C30: distinct scenarios of one batch never share a branch: for any two
\* different shift levels passed to run_scenarios, and any two different
\* multipliers passed to run_sweep, the branch names differ, so the batch ends
\* with one branch of the baseline per different level.
C30_DistinctLevelsDistinctBranches ==
    (routine \in {"run_scenarios", "run_sweep"} /\ Finished)
    => Cardinality(ScenarioBranches) = Cardinality(ScenarioLevels)

====
